---- MODULE Spec2Model ----
(***************************************************************************)
(* Model of the merge / conflict-detection / edit-overlay logic of the     *)
(* BOM merge front end (pages/MergedParts.tsx and services/api.ts).        *)
(*                                                                         *)
(* JavaScript values are modelled by what the code does with them:         *)
(*   - a string is a sequence of one-character strings,                    *)
(*   - a number is an integer count of tenths (15 is 1.5, 10 is 1),        *)
(*   - null / undefined is the value Null.                                 *)
(* Every value has the same three fields so that any two can be compared.  *)
(***************************************************************************)
EXTENDS Integers, Sequences, FiniteSets, TLC

VARIABLES
    \* --- state of the MergedParts component (useState) ---
    parts,           \* the working set
    loading,
    error,
    projectNames,
    sourceFileIds,
    conflictParts,
    editMode,
    editedParts,     \* the overlay: part id -> (field -> value)
    saving,
    saveMessage,
    \* --- the page's environment ---
    mounted,         \* the component has run its first effect
    search,          \* location.search: the selection in the URL
    navCount,        \* how often location.search has changed
    fetches,         \* fetchMergedParts invocations waiting for a response
    saveRequest,     \* the handleSaveChanges invocation waiting for updateParts
    \* --- storage behind the API ---
    partsLibrary,    \* rows of the parts_library table
    uploadedFiles,        \* the registry: file id -> display name
    mergedProjectsTable,  \* rows of the merged_projects table
    mergedPartsTable,     \* rows of the merged_parts table
    serials,              \* the next values of the two SERIAL keys
    \* --- MergedParts: saving the working set as a merged project ---
    savingMergedProject,
    mergedProjectName,
    showSaveDialog,
    snapshotRequests,     \* handleSaveMergedProject invocations waiting for a response
    \* --- the MergedProjectList component ---
    listProjects,         \* its mergedProjects state
    listError,
    listConfirmDelete,
    listRequest,          \* its handleConfirmDelete invocation waiting for a response
    \* --- the MergedProjectParts component ---
    viewProjectInfo,
    viewParts,            \* its parts state
    viewError,
    viewConfirmDelete,
    viewRequest,          \* its handleConfirmDelete invocation waiting for a response
    \* --- the ProjectSelection component ---
    selectedFileIds,
    projectDetails,
    editingProjectName,
    selectionError,       \* its error state
    renameRequest,        \* its handleSaveProjectName invocation waiting for a response
    \* --- the router ---
    route,                \* the page on display
    \* --- a second browser tab on the same merge ---
    otherTab,             \* its parts, its editedParts and its handleSaveChanges invocation
    \* --- the authApi client (module state and localStorage) ---
    isRefreshing,         \* let isRefreshing
    failedQueue,          \* let failedQueue: whose promise each {resolve, reject} pair settles
    authRequests,         \* the calls made through authApi
    refreshRequest,       \* the POST /api/auth/refresh of the running refresh
    accessToken,          \* localStorage access_token: 0 when absent, else the n-th token issued
    refreshToken,         \* whether localStorage holds a refresh_token
    \* --- harness of the pure function ---
    dInput,          \* the list handed to checkForConflicts
    dResult          \* what checkForConflicts produced

dvars == <<dInput, dResult>>

compVars == <<parts, loading, error, projectNames, sourceFileIds, conflictParts,
              editMode, editedParts, saving, saveMessage>>

envVars == <<mounted, search, navCount, fetches, saveRequest>>

storeVars == <<partsLibrary>>

pvars == <<compVars, envVars, storeVars>>

snapStoreVars == <<uploadedFiles, mergedProjectsTable, mergedPartsTable, serials>>

saveDialogVars == <<savingMergedProject, mergedProjectName, showSaveDialog, snapshotRequests>>

listVars == <<listProjects, listError, listConfirmDelete, listRequest>>

viewVars == <<viewProjectInfo, viewParts, viewError, viewConfirmDelete, viewRequest>>

selectionVars == <<selectedFileIds, projectDetails, editingProjectName, selectionError,
                   renameRequest>>

snapVars == <<snapStoreVars, saveDialogVars, listVars, viewVars, selectionVars, route>>

authVars == <<isRefreshing, failedQueue, authRequests, refreshRequest, accessToken,
              refreshToken>>

vars == <<pvars, dvars, snapVars, otherTab, authVars>>

-----------------------------------------------------------------------------
(* JavaScript values *)

Null == [t |-> "null", s |-> <<>>, n |-> 0]

Str(chars) == [t |-> "str", s |-> chars, n |-> 0]

Num(tenths) == [t |-> "num", s |-> <<>>, n |-> tenths]

\* JavaScript truthiness (the operand of `x || y` and of `if (x)`).
Truthy(v) ==
    CASE v.t = "null" -> FALSE
      [] v.t = "str"  -> v.s # <<>>
      [] v.t = "num"  -> v.n # 0

DigitChars == <<"0", "1", "2", "3", "4", "5", "6", "7", "8", "9">>

IsDigit(c) == \E i \in 1..10 : DigitChars[i] = c

DigitValue(c) == (CHOOSE i \in 1..10 : DigitChars[i] = c) - 1

WhiteSpace == {" ", "\t"}

\* Decimal digits of a natural number.
RECURSIVE NatToString(_)
NatToString(k) ==
    IF k < 10 THEN <<DigitChars[k + 1]>>
    ELSE NatToString(k \div 10) \o <<DigitChars[(k % 10) + 1]>>

\* String(x) for a number x given in tenths: 10 -> "1", 15 -> "1.5", -20 -> "-2".
NumberToString(tenths) ==
    LET a == IF tenths < 0 THEN 0 - tenths ELSE tenths
        body == IF a % 10 = 0 THEN NatToString(a \div 10)
                ELSE NatToString(a \div 10) \o <<".">> \o <<DigitChars[(a % 10) + 1]>>
    IN IF tenths < 0 THEN <<"-">> \o body ELSE body

\* String(v)
StringOf(v) ==
    CASE v.t = "null" -> <<"n", "u", "l", "l">>
      [] v.t = "str"  -> v.s
      [] v.t = "num"  -> NumberToString(v.n)

\* The result of parseInt: an integer or NaN.
NaN == [nan |-> TRUE, v |-> 0]

Int32(k) == [nan |-> FALSE, v |-> k]

RECURSIVE SkipWhiteSpace(_)
SkipWhiteSpace(s) ==
    IF s # <<>> /\ Head(s) \in WhiteSpace THEN SkipWhiteSpace(Tail(s)) ELSE s

RECURSIVE LeadingDigits(_)
LeadingDigits(s) ==
    IF s # <<>> /\ IsDigit(Head(s)) THEN <<Head(s)>> \o LeadingDigits(Tail(s)) ELSE <<>>

RECURSIVE DigitsToNat(_, _)
DigitsToNat(ds, acc) ==
    IF ds = <<>> THEN acc ELSE DigitsToNat(Tail(ds), acc * 10 + DigitValue(Head(ds)))

\* parseInt(s, 10): leading white space is skipped, an optional sign is read,
\* then the longest run of decimal digits; no digit at all gives NaN.
parseInt(s) ==
    LET t == SkipWhiteSpace(s)
        signed == t # <<>> /\ Head(t) \in {"+", "-"}
        u == IF signed THEN Tail(t) ELSE t
        ds == LeadingDigits(u)
        k == DigitsToNat(ds, 0)
    IN IF ds = <<>> THEN NaN
       ELSE IF signed /\ Head(t) = "-" THEN Int32(0 - k) ELSE Int32(k)

\* String(numValue) for the result of parseInt.
IntResultToString(r) ==
    IF r.nan THEN <<"N", "a", "N">>
    ELSE IF r.v < 0 THEN <<"-">> \o NatToString(0 - r.v) ELSE NatToString(r.v)

-----------------------------------------------------------------------------
(* Part records *)

\* The compared fields, in the order checkForConflicts visits them.
fieldsToCompare ==
    << "level", "part_name", "spec", "version", "material",
       "unit_count_per_level", "unit_weight_kg", "total_weight_kg",
       "part_property", "drawing_size", "reference_number",
       "purchase_status", "process_route", "remark" >>

CompareFields == {fieldsToCompare[i] : i \in 1..Len(fieldsToCompare)}

\* A Part: `id` is an integer, every other field is a JavaScript value.
Part(id, code, projectName, fileId, level, spec, weight, remark) ==
    [ id |-> id,
      level |-> level,
      part_code |-> code,
      part_name |-> Str(<<"n">>),
      spec |-> spec,
      version |-> Str(<<"A">>),
      material |-> Null,
      unit_count_per_level |-> Str(<<"1">>),
      unit_weight_kg |-> Str(<<>>),
      total_weight_kg |-> weight,
      part_property |-> Null,
      drawing_size |-> Null,
      reference_number |-> Null,
      purchase_status |-> Null,
      process_route |-> Null,
      remark |-> remark,
      upload_batch |-> Str(<<"b">>),
      project_name |-> projectName,
      file_unique_id |-> fileId,
      created_at |-> Str(<<"t">>) ]

\* Part codes used in the sample data.
P1 == <<"P", "1">>

P2 == <<"P", "2">>

Constructor == <<"c","o","n","s","t","r","u","c","t","o","r">>

-----------------------------------------------------------------------------
(* checkForConflicts *)

\* The property names every object literal inherits from Object.prototype.
ObjectPrototypeKeys ==
    { <<"c","o","n","s","t","r","u","c","t","o","r">>,
      <<"_","_","p","r","o","t","o","_","_">>,
      <<"t","o","S","t","r","i","n","g">>,
      <<"t","o","L","o","c","a","l","e","S","t","r","i","n","g">>,
      <<"v","a","l","u","e","O","f">>,
      <<"h","a","s","O","w","n","P","r","o","p","e","r","t","y">>,
      <<"i","s","P","r","o","t","o","t","y","p","e","O","f">>,
      <<"p","r","o","p","e","r","t","y","I","s","E","n","u","m","e","r","a","b","l","e">>,
      <<"_","_","d","e","f","i","n","e","G","e","t","t","e","r","_","_">>,
      <<"_","_","d","e","f","i","n","e","S","e","t","t","e","r","_","_">>,
      <<"_","_","l","o","o","k","u","p","G","e","t","t","e","r","_","_">>,
      <<"_","_","l","o","o","k","u","p","S","e","t","t","e","r","_","_">> }

\* partCodeMap while it is being filled: its own properties, and whether
\* `partCodeMap[code].push(part)` has raised a TypeError.
EmptyPartCodeMap == [threw |-> FALSE, own |-> <<>>]

\* One iteration of `partsData.forEach(part => { if (part.part_code) ... })`.
\* partCodeMap is an object literal: reading a key it does not own falls
\* through to Object.prototype, whose members are truthy and have no push.
groupStep(acc, part) ==
    LET key == StringOf(part.part_code)
    IN IF acc.threw \/ ~Truthy(part.part_code) THEN acc
       ELSE IF key \in DOMAIN acc.own
            THEN [acc EXCEPT !.own[key] = Append(@, part)]
       ELSE IF key \in ObjectPrototypeKeys
            THEN [acc EXCEPT !.threw = TRUE]
       ELSE [acc EXCEPT !.own = [k \in DOMAIN acc.own \cup {key} |->
                                    IF k = key THEN <<part>> ELSE acc.own[k]]]

RECURSIVE groupByPartCode(_, _)
groupByPartCode(partsData, acc) ==
    IF partsData = <<>> THEN acc
    ELSE groupByPartCode(Tail(partsData), groupStep(acc, Head(partsData)))

\* comparedValue without the integer coercion of level.
comparedValueAsText(part, field) ==
    IF part[field].t = "num" THEN StringOf(part[field])
    ELSE IF Truthy(part[field]) THEN StringOf(part[field]) ELSE <<>>

\* The string added to uniqueValues for one part and one field.
comparedValue(part, field) ==
    IF field = "level"
    THEN IntResultToString(
             parseInt(IF Truthy(part[field]) THEN StringOf(part[field]) ELSE <<"0">>))
    ELSE IF part[field].t = "num" THEN StringOf(part[field])
    ELSE IF Truthy(part[field]) THEN StringOf(part[field]) ELSE <<>>

\* The set built from the first two members of the group only.
uniqueValuesOfFirstTwo(partsGroup, field) ==
    {comparedValue(partsGroup[i], field) : i \in 1..Len(partsGroup) \cap 1..2}

uniqueValues(partsGroup, field) ==
    {comparedValue(partsGroup[i], field) : i \in 1..Len(partsGroup)}

conflictFields(partsGroup) ==
    SelectSeq(fieldsToCompare, LAMBDA f : Cardinality(uniqueValues(partsGroup, f)) > 1)

\* The value handed to setConflictParts, or the fact that a TypeError was raised
\* before it was reached.  The entries do not depend on the order in which
\* Object.entries visits the groups, so the groups are taken as a set.
checkForConflicts(partsData) ==
    LET partCodeMap == groupByPartCode(partsData, EmptyPartCodeMap)
        conflicting == {k \in DOMAIN partCodeMap.own :
                            /\ Len(partCodeMap.own[k]) > 1
                            /\ Len(conflictFields(partCodeMap.own[k])) > 0}
    IN IF partCodeMap.threw
       THEN [status |-> "threw", conflicts |-> <<>>]
       ELSE [status |-> "ok",
             conflicts |-> [k \in conflicting |->
                              [partCode |-> k,
                               conflictFields |-> conflictFields(partCodeMap.own[k])]]]

-----------------------------------------------------------------------------
(* Storage behind the API: the parts_library table and the two merge endpoints *)

F1 == Str(<<"f", "1">>)

F2 == Str(<<"f", "2">>)

F3 == Str(<<"f", "3">>)

FileIds == {F1, F2, F3}

\* Display name of each uploaded file.
InitialProjectName == [f \in FileIds |->
    IF f = F1 THEN Str(<<"A">>) ELSE IF f = F2 THEN Str(<<"B">>) ELSE Str(<<"C">>)]

Row(id, fileId, code, level, spec) ==
    Part(id, code, InitialProjectName[fileId], fileId, level, spec, Num(15), Null)

\* The rows imported from three files.  File f1 and file f2 both list part P1,
\* with a different spec and the same level written as text and as a number;
\* file f1 also holds a row without part code; file f3 holds a row whose part
\* code is "constructor".
InitialPartsLibrary ==
    << Row(1, F1, Str(P1), Str(<<"1">>), Str(<<"X">>)),
       Row(2, F1, Str(<<>>), Str(<<"2">>), Str(<<"X">>)),
       Row(3, F2, Str(P1), Num(10), Str(<<"Y">>)),
       Row(4, F3, Str(Constructor), Str(<<"1">>), Str(<<"X">>)) >>

RECURSIVE Concat(_)
Concat(lists) == IF lists = <<>> THEN <<>> ELSE Head(lists) \o Concat(Tail(lists))

RegisteredFileIds(library) == {library[i].file_unique_id : i \in 1..Len(library)}

RegisteredNames(library) == {library[i].project_name : i \in 1..Len(library)}

\* POST /merge_parts_by_file_ids: the rows of each file, files in the order given.
mergePartsByFileIds(library, fileIds) ==
    Concat([k \in 1..Len(fileIds) |->
              SelectSeq(library, LAMBDA row : row.file_unique_id = fileIds[k])])

\* POST /merge_parts: the rows of each project name, names in the order given.
mergeParts(library, names) ==
    Concat([k \in 1..Len(names) |->
              SelectSeq(library, LAMBDA row : row.project_name = names[k])])

\* POST /update_parts applied to one row: the fields of the matching payload entry.
updateRow(row, partsToUpdate) ==
    LET hits == {k \in 1..Len(partsToUpdate) : partsToUpdate[k]["id"] = row.id}
    IN IF hits = {} THEN row
       ELSE LET u == partsToUpdate[CHOOSE k \in hits : \A j \in hits : j <= k]
            IN [f \in DOMAIN row |-> IF f \in DOMAIN u /\ f # "id" THEN u[f] ELSE row[f]]

\* A storage that refuses to change a row another commit has changed before.
updatePartsInLibraryFirstWins(library, partsToUpdate) ==
    [i \in 1..Len(library) |->
        IF library[i] \in {InitialPartsLibrary[j] : j \in 1..Len(InitialPartsLibrary)}
        THEN updateRow(library[i], partsToUpdate)
        ELSE library[i]]

updatePartsInLibrary(library, partsToUpdate) ==
    [i \in 1..Len(library) |-> updateRow(library[i], partsToUpdate)]

-----------------------------------------------------------------------------
(* The MergedParts page *)

NoError == "null"

\* The error mergePartsByFileIds rejects with.
MergeByIdError == "mergePartsByFileIds rejected"

\* The text the outer catch block of fetchMergedParts puts into error.
FetchFailedMessage == "fetchFailed"

NoMessage == [type |-> "null", updated_count |-> 0]

EmptyOverlay == <<>>

NoSaveRequest == [active |-> FALSE, partsToUpdate |-> <<>>, editedParts |-> <<>>, parts |-> <<>>]

\* location.search without the projects / fileIds parameters.
NoParams == [has |-> FALSE, projects |-> <<>>, fileIds |-> <<>>]

\* location.search as handleMergeClick builds it for a selection of file ids.
SearchFor(fileIds) ==
    [has |-> TRUE,
     projects |-> [k \in 1..Len(fileIds) |-> InitialProjectName[fileIds[k]]],
     fileIds |-> fileIds]

\* The selections the user navigates to.
Selections ==
    {SearchFor(<<F2, F1>>), SearchFor(<<F1>>), SearchFor(<<F3>>), NoParams}

\* The selections the page is opened with.
InitialSelections == {SearchFor(<<F2, F1>>)}

\* Bound of the exploration: how often the selection changes while the page is open.
MaxNav == 1

PInit ==
    /\ parts = <<>>
    /\ loading = TRUE
    /\ error = NoError
    /\ projectNames = <<>>
    /\ sourceFileIds = <<>>
    /\ conflictParts = <<>>
    /\ editMode = FALSE
    /\ editedParts = EmptyOverlay
    /\ saving = FALSE
    /\ saveMessage = NoMessage
    /\ mounted = FALSE
    /\ search \in InitialSelections
    /\ navCount = 0
    /\ fetches = {}
    /\ saveRequest = NoSaveRequest
    /\ partsLibrary = InitialPartsLibrary

\* fetchMergedParts up to its first await: the effect body run for one value
\* of location.search; n numbers the invocations.
fetchStart(q, n) ==
    IF ~q.has
    THEN /\ error' = "missingParams"
         /\ parts' = <<>>
         /\ projectNames' = <<>>
         /\ loading' = FALSE
         /\ UNCHANGED <<sourceFileIds, fetches>>
    ELSE /\ projectNames' = q.projects
         /\ sourceFileIds' = q.fileIds
         /\ loading' = TRUE
         /\ fetches' = fetches \cup
               {[n |-> n, projects |-> q.projects, fileIds |-> q.fileIds,
                 stage |-> "byId", idError |-> NoError]}
         /\ UNCHANGED <<error, parts>>

\* The first run of the effect, after the component has been constructed.
Mount ==
    /\ ~mounted
    /\ route = "merged-parts"
    /\ mounted' = TRUE
    /\ fetchStart(search, 0)
    /\ UNCHANGED <<authVars, otherTab, conflictParts, editMode, editedParts, saving, saveMessage,
                   search, navCount, saveRequest, storeVars, dvars, snapVars>>

\* location.search changes while the page stays mounted: the effect runs again.
Navigate(q) ==
    /\ mounted
    /\ navCount < MaxNav
    /\ q # search
    /\ search' = q
    /\ navCount' = navCount + 1
    /\ fetchStart(q, navCount + 1)
    /\ UNCHANGED <<authVars, otherTab, conflictParts, editMode, editedParts, saving, saveMessage,
                   mounted, saveRequest, storeVars, dvars, snapVars>>

\* fetchMergedParts after a merge response: setParts, the inline conflict check
\* (the same statements as checkForConflicts), setConflictParts, setError(null);
\* an exception goes to the catch block; finally setLoading(false).
fetchProcess(mergedParts) ==
    LET r == checkForConflicts(mergedParts)
    IN /\ IF r.status = "ok"
          THEN /\ parts' = mergedParts
               /\ conflictParts' = r.conflicts
               /\ error' = NoError
          ELSE /\ parts' = <<>>
               /\ error' = FetchFailedMessage
               /\ UNCHANGED conflictParts
       /\ loading' = FALSE

\* mergePartsByFileIds answers with the merged rows.
MergeByIdOk(f) ==
    /\ f \in fetches /\ f.stage = "byId"
    /\ f.fileIds # <<>>
    /\ \A k \in 1..Len(f.fileIds) : f.fileIds[k] \in RegisteredFileIds(partsLibrary)
    /\ fetches' = fetches \ {f}
    /\ fetchProcess(mergePartsByFileIds(partsLibrary, f.fileIds))
    /\ UNCHANGED <<authVars, otherTab, projectNames, sourceFileIds, editMode, editedParts, saving, saveMessage,
                   mounted, search, navCount, saveRequest, storeVars, dvars, snapVars>>

\* mergePartsByFileIds rejects: the inner catch binds the error, logs it and
\* sends mergeParts(selectedProjects).
MergeByIdFail(f) ==
    /\ f \in fetches /\ f.stage = "byId"
    /\ fetches' = (fetches \ {f}) \cup
                     {[f EXCEPT !.stage = "byName", !.idError = MergeByIdError]}
    /\ UNCHANGED <<authVars, otherTab, compVars, mounted, search, navCount, saveRequest, storeVars, dvars, snapVars>>

\* mergeParts answers with the merged rows.
MergeByNameOk(f) ==
    /\ f \in fetches /\ f.stage = "byName"
    /\ f.projects # <<>>
    /\ \A k \in 1..Len(f.projects) : f.projects[k] \in RegisteredNames(partsLibrary)
    /\ fetches' = fetches \ {f}
    /\ fetchProcess(mergeParts(partsLibrary, f.projects))
    /\ UNCHANGED <<authVars, otherTab, projectNames, sourceFileIds, editMode, editedParts, saving, saveMessage,
                   mounted, search, navCount, saveRequest, storeVars, dvars, snapVars>>

\* mergeParts rejects as well: the outer catch block.
MergeByNameFail(f) ==
    /\ f \in fetches /\ f.stage = "byName"
    /\ fetches' = fetches \ {f}
    /\ error' = FetchFailedMessage
    /\ parts' = <<>>
    /\ loading' = FALSE
    /\ UNCHANGED <<authVars, otherTab, projectNames, sourceFileIds, conflictParts, editMode, editedParts,
                   saving, saveMessage, mounted, search, navCount, saveRequest,
                   storeVars, dvars, snapVars>>

\* The edit-mode toggle button: setEditMode(!editMode).
ToggleEditMode ==
    /\ mounted
    /\ editMode' = ~editMode
    /\ UNCHANGED <<authVars, otherTab, parts, loading, error, projectNames, sourceFileIds, conflictParts,
                   editedParts, saving, saveMessage, envVars, storeVars, dvars, snapVars>>

\* parseFloat(text), in tenths, for texts with at most one digit after the point;
\* NaN when the text does not start with a number.
parseFloat(s) ==
    LET t == SkipWhiteSpace(s)
        signed == t # <<>> /\ Head(t) \in {"+", "-"}
        u == IF signed THEN Tail(t) ELSE t
        ds == LeadingDigits(u)
        rest == SubSeq(u, Len(ds) + 1, Len(u))
        hasFrac == Len(rest) >= 2 /\ rest[1] = "." /\ IsDigit(rest[2])
        tenths == DigitsToNat(ds, 0) * 10 + (IF hasFrac THEN DigitValue(rest[2]) ELSE 0)
    IN IF ds = <<>> /\ ~hasFrac THEN NaN
       ELSE IF signed /\ Head(t) = "-" THEN Int32(0 - tenths) ELSE Int32(tenths)

\* The cells of an edit-mode row with the part_code cell rendered as an input too.
EditableFieldsWithPartCode == CompareFields \cup {"part_code"}

\* The fields whose cells render an <input> in edit mode.  The part_code and
\* project_name cells render plain text.
EditableFields == CompareFields

\* The value an input's onChange hands to handleCellChange: e.target.value, and
\* for total_weight_kg `parseFloat(e.target.value) || 0`.
cellValue(field, text) ==
    IF field = "total_weight_kg"
    THEN (IF parseFloat(text).nan THEN Num(0) ELSE Num(parseFloat(text).v))
    ELSE Str(text)

\* What the user types, as <<part id, field, text>>; the last two are attempts
\* on the cells that identify a record.
UserEdits ==
    { <<1, "level", <<"2">> >>,
      <<3, "spec", <<"X">> >>,
      <<3, "spec", <<"Z">> >>,
      <<3, "total_weight_kg", <<"2", ".", "5">> >>,
      <<1, "part_code", P2>>,
      <<3, "project_name", <<"A">> >> }

\* The edits typed while the selection changes under the page.
EditsWhileNavigating ==
    { <<1, "level", <<"2">> >>,
      <<3, "spec", <<"X">> >>,
      <<1, "part_code", P2>>,
      <<3, "project_name", <<"A">> >> }

\* The update without `...prev`: the edits of the other records are dropped.
handleCellChangeWithoutPrev(prev, partId, field, value) ==
    LET old == IF partId \in DOMAIN prev THEN prev[partId] ELSE <<>>
    IN [k \in {partId} |->
          [f \in DOMAIN old \cup {field} |-> IF f = field THEN value ELSE old[f]]]

\* setEditedParts(prev => ({...prev, [partId]: {...(prev[partId] || {}), [field]: value}}))
handleCellChange(prev, partId, field, value) ==
    LET old == IF partId \in DOMAIN prev THEN prev[partId] ELSE <<>>
        changed == [f \in DOMAIN old \cup {field} |-> IF f = field THEN value ELSE old[f]]
    IN [k \in DOMAIN prev \cup {partId} |-> IF k = partId THEN changed ELSE prev[k]]

\* onChange of the input of one field in the row of one part.  The table is
\* rendered when loading is false, its inputs when editMode is true.
SetField(partId, field, text) ==
    /\ mounted /\ editMode /\ ~loading
    /\ \E i \in 1..Len(parts) : parts[i].id = partId
    /\ field \in EditableFields
    /\ editedParts' = handleCellChange(editedParts, partId, field, cellValue(field, text))
    /\ UNCHANGED <<authVars, otherTab, parts, loading, error, projectNames, sourceFileIds, conflictParts,
                   editMode, saving, saveMessage, envVars, storeVars, dvars, snapVars>>

\* { ...part, ...changes }
applyChanges(part, changes) ==
    [f \in DOMAIN part \cup DOMAIN changes |-> IF f \in DOMAIN changes THEN changes[f] ELSE part[f]]

\* The map with the changes looked up by the row's position instead of part.id.
applyEditsByPosition(partList, edited) ==
    [i \in 1..Len(partList) |->
        IF i \in DOMAIN edited
        THEN applyChanges(partList[i], edited[i])
        ELSE partList[i]]

\* prevParts.map(part => editedParts[part.id] ? { ...part, ...changes } : part)
applyEdits(partList, edited) ==
    [i \in 1..Len(partList) |->
        IF partList[i].id \in DOMAIN edited
        THEN applyChanges(partList[i], edited[partList[i].id])
        ELSE partList[i]]

\* parts.map(part => editedParts[part.id] ? { ...part, ...changes } : part), the
\* argument of the check that follows a successful update.
partsForRecheck(partList, edited) == applyEdits(partList, edited)

\* The keys of an object with integer-like names, in the order Object.entries
\* visits them: ascending.
RECURSIVE AscendingKeys(_)
AscendingKeys(keys) ==
    IF keys = {} THEN <<>>
    ELSE LET m == CHOOSE k \in keys : \A j \in keys : k <= j
         IN <<m>> \o AscendingKeys(keys \ {m})

\* Object.entries(editedParts).map(([partId, changes]) => ({id: parseInt(partId), ...changes}))
partsToUpdateOf(edited) ==
    LET ids == AscendingKeys(DOMAIN edited)
    IN [k \in 1..Len(ids) |->
          [f \in {"id"} \cup DOMAIN edited[ids[k]] |->
              IF f \in DOMAIN edited[ids[k]] THEN edited[ids[k]][f]
              ELSE parseInt(NatToString(ids[k])).v]]

\* handleSaveChanges up to `await updateParts(partsToUpdate)`.  The save button
\* is rendered in edit mode and disabled while saving or without pending edits.
\* The invocation keeps the editedParts and parts of the render it was created in.
SaveChangesStart ==
    /\ mounted /\ editMode /\ ~saving
    /\ DOMAIN editedParts # {}
    /\ ~saveRequest.active
    /\ saving' = TRUE
    /\ saveMessage' = NoMessage
    /\ saveRequest' = [active |-> TRUE,
                       partsToUpdate |-> partsToUpdateOf(editedParts),
                       editedParts |-> editedParts,
                       parts |-> parts]
    /\ UNCHANGED <<authVars, otherTab, parts, loading, error, projectNames, sourceFileIds, conflictParts,
                   editMode, editedParts, mounted, search, navCount, fetches,
                   storeVars, dvars, snapVars>>

\* updateParts resolves: storage has applied the payload; setParts with the
\* functional updater, setEditedParts({}), the success message, then
\* checkForConflicts over the invocation's own `parts`; finally setSaving(false).
SaveChangesOk ==
    /\ saveRequest.active
    /\ LET r == checkForConflicts(partsForRecheck(saveRequest.parts, saveRequest.editedParts))
       IN /\ partsLibrary' = updatePartsInLibrary(partsLibrary, saveRequest.partsToUpdate)
          /\ parts' = applyEdits(parts, saveRequest.editedParts)
          /\ editedParts' = EmptyOverlay
          /\ IF r.status = "ok"
             THEN /\ conflictParts' = r.conflicts
                  /\ saveMessage' = [type |-> "success",
                                     updated_count |-> Len(saveRequest.partsToUpdate)]
             ELSE /\ saveMessage' = [type |-> "error", updated_count |-> 0]
                  /\ UNCHANGED conflictParts
    /\ saving' = FALSE
    /\ saveRequest' = NoSaveRequest
    /\ UNCHANGED <<authVars, otherTab, loading, error, projectNames, sourceFileIds, editMode,
                   mounted, search, navCount, fetches, dvars, snapVars>>

\* A catch block that also drops the pending edits.
SaveChangesFailClearingOverlay ==
    /\ saveRequest.active
    /\ saveMessage' = [type |-> "error", updated_count |-> 0]
    /\ editedParts' = EmptyOverlay
    /\ saving' = FALSE
    /\ saveRequest' = NoSaveRequest
    /\ UNCHANGED <<authVars, otherTab, parts, loading, error, projectNames, sourceFileIds, conflictParts,
                   editMode, mounted, search, navCount, fetches,
                   storeVars, dvars, snapVars>>

\* updateParts rejects: the catch block sets the error message.
SaveChangesFail ==
    /\ saveRequest.active
    /\ saveMessage' = [type |-> "error", updated_count |-> 0]
    /\ saving' = FALSE
    /\ saveRequest' = NoSaveRequest
    /\ UNCHANGED <<authVars, otherTab, parts, loading, error, projectNames, sourceFileIds, conflictParts,
                   editMode, editedParts, mounted, search, navCount, fetches,
                   storeVars, dvars, snapVars>>

-----------------------------------------------------------------------------
(* Merged projects: the tables behind the API and the requests that reach them *)

\* The columns of merged_parts that hold a part's data.
MergedPartColumns == CompareFields \cup {"part_code"}

\* The value of a state that holds null.
NoValue == [isNull |-> TRUE]

\* A request body that leaves out the last part.
saveMergedProjectDroppingLast(name, sourceProjects, partList, fileIds) ==
    [ merged_project_name |-> name,
      source_projects |-> sourceProjects,
      source_file_ids |-> fileIds,
      parts |-> SubSeq(partList, 1, Len(partList) - 1) ]

\* The body of POST /save-merged-project.
saveMergedProject(name, sourceProjects, partList, fileIds) ==
    [ merged_project_name |-> name,
      source_projects |-> sourceProjects,
      source_file_ids |-> fileIds,
      parts |-> partList ]

\* One row of merged_parts: the data columns of the part under a new key.
copyOfPart(part, newId, projectId) ==
    [f \in MergedPartColumns \cup {"id", "merged_project_id"} |->
        IF f = "id" THEN newId
        ELSE IF f = "merged_project_id" THEN projectId
        ELSE part[f]]

\* POST /save-merged-project: one merged_projects row and one merged_parts row
\* per part of the request, in the order of the request.
insertedProject(body, keys) ==
    [ id |-> keys.project,
      merged_project_name |-> body.merged_project_name,
      source_projects |-> body.source_projects,
      source_file_ids |-> body.source_file_ids ]

insertedParts(body, keys) ==
    [k \in 1..Len(body.parts) |-> copyOfPart(body.parts[k], keys.part + k - 1, keys.project)]

\* GET /merged-projects
getMergedProjects(projectsTable) == projectsTable

\* GET /merged-project-parts/{id}: the project row and its part rows.
HasMergedProject(projectsTable, projectId) ==
    \E k \in 1..Len(projectsTable) : projectsTable[k].id = projectId

getMergedProjectParts(projectsTable, partsTable, projectId) ==
    [ project |-> SelectSeq(projectsTable, LAMBDA row : row.id = projectId)[1],
      parts |-> SelectSeq(partsTable, LAMBDA row : row.merged_project_id = projectId) ]

\* A deletion that leaves the part rows behind.
keepMergedProjectParts(partsTable, projectId) == partsTable

\* DELETE /merged-projects/{id}: the project row and all of its part rows.
deleteMergedProjectRows(projectsTable, projectId) ==
    SelectSeq(projectsTable, LAMBDA row : row.id # projectId)

deleteMergedProjectParts(partsTable, projectId) ==
    SelectSeq(partsTable, LAMBDA row : row.merged_project_id # projectId)

\* DELETE /merged-parts/{id}: that one row.
deleteMergedPart(partsTable, partId) ==
    SelectSeq(partsTable, LAMBDA row : row.id # partId)

\* PUT /uploaded_files/{id}/update_project: the display name of one file.
updateProjectName(files, fileId, newName) ==
    [f \in DOMAIN files |-> IF f = fileId THEN newName ELSE files[f]]

\* DELETE of a source by file id: its registry entry and its parts_library rows.
deleteProjectByFileId(library, fileId) ==
    SelectSeq(library, LAMBDA row : row.file_unique_id # fileId)

NoRequest == [active |-> FALSE]

-----------------------------------------------------------------------------
(* The authApi client: token refresh in the response interceptor *)

MaxRequests == 2

RequestIds == 1..MaxRequests

\* The entry of failedQueue that belongs to the refresh request itself.
RefreshWaiter == 0

\* A call that has not been made yet.
NotSent == [state |-> "idle", retry |-> FALSE, token |-> 0]

\* The state after a login: both tokens stored, no call made, no refresh running.
AInit ==
    /\ isRefreshing = FALSE
    /\ failedQueue = <<>>
    /\ authRequests = [r \in RequestIds |-> NotSent]
    /\ refreshRequest = "none"
    /\ accessToken = 1
    /\ refreshToken = TRUE

\* Whether the promise of request r is an entry of the queue q.
Queued(q, r) == \E k \in 1..Len(q) : q[k] = r

\* processQueue(error, null) for the calls: every queued promise is rejected, and
\* the catch of the waiting interceptor rejects the call.
rejectQueued(requests, q) ==
    [r \in RequestIds |->
        IF Queued(q, r) THEN [requests[r] EXCEPT !.state = "rejected"] ELSE requests[r]]

\* processQueue(null, token) for the calls: every queued promise is resolved, and
\* the `then` of the waiting interceptor sends the request again with the token.
retryQueued(requests, q, token) ==
    [r \in RequestIds |->
        IF Queued(q, r)
        THEN [requests[r] EXCEPT !.state = "sent", !.token = token]
        ELSE requests[r]]

\* A call through authApi; the request interceptor adds the stored access token.
SendRequest(r) ==
    /\ authRequests[r].state = "idle"
    /\ authRequests' = [authRequests EXCEPT ![r] =
                           [state |-> "sent", retry |-> FALSE, token |-> accessToken]]
    /\ UNCHANGED <<isRefreshing, failedQueue, refreshRequest, accessToken, refreshToken>>
    /\ UNCHANGED <<pvars, dvars, snapVars, otherTab>>

\* A 2xx answer: (response) => response.
ResponseOk(r) ==
    /\ authRequests[r].state = "sent"
    /\ authRequests' = [authRequests EXCEPT ![r].state = "resolved"]
    /\ UNCHANGED <<isRefreshing, failedQueue, refreshRequest, accessToken, refreshToken>>
    /\ UNCHANGED <<pvars, dvars, snapVars, otherTab>>

\* An error answer other than 401: the last statement, Promise.reject(error).
ResponseError(r) ==
    /\ authRequests[r].state = "sent"
    /\ authRequests' = [authRequests EXCEPT ![r].state = "rejected"]
    /\ UNCHANGED <<isRefreshing, failedQueue, refreshRequest, accessToken, refreshToken>>
    /\ UNCHANGED <<pvars, dvars, snapVars, otherTab>>

\* A 401 answer to a call: rejected when the call was a retry, queued when a
\* refresh is running, else this invocation starts the refresh; without a stored
\* refresh token the try block throws and the catch and finally blocks run at once.
Response401(r) ==
    /\ authRequests[r].state = "sent"
    /\ IF authRequests[r].retry
       THEN /\ authRequests' = [authRequests EXCEPT ![r].state = "rejected"]
            /\ UNCHANGED <<isRefreshing, failedQueue, refreshRequest, accessToken,
                           refreshToken>>
       ELSE IF isRefreshing
       THEN /\ failedQueue' = Append(failedQueue, r)
            /\ authRequests' = [authRequests EXCEPT ![r].state = "waiting"]
            /\ UNCHANGED <<isRefreshing, refreshRequest, accessToken, refreshToken>>
       ELSE IF ~refreshToken
       THEN /\ authRequests' = [rejectQueued(authRequests, failedQueue) EXCEPT
                                   ![r] = [@ EXCEPT !.state = "rejected", !.retry = TRUE]]
            /\ failedQueue' = <<>>
            /\ accessToken' = 0
            /\ refreshToken' = FALSE
            /\ isRefreshing' = FALSE
            /\ UNCHANGED refreshRequest
       ELSE /\ authRequests' = [authRequests EXCEPT
                                   ![r] = [@ EXCEPT !.state = "refreshing", !.retry = TRUE]]
            /\ isRefreshing' = TRUE
            /\ refreshRequest' = "sent"
            /\ UNCHANGED <<failedQueue, accessToken, refreshToken>>
    /\ UNCHANGED <<pvars, dvars, snapVars, otherTab>>

\* The refresh request is answered with a new access token: setItem,
\* processQueue(null, access_token), the original request is sent again, and the
\* finally block resets the flag.
RefreshOk ==
    /\ refreshRequest = "sent"
    /\ accessToken' = accessToken + 1
    /\ authRequests' =
          [r \in RequestIds |->
              IF authRequests[r].state = "refreshing"
              THEN [authRequests[r] EXCEPT !.state = "sent", !.token = accessToken + 1]
              ELSE retryQueued(authRequests, failedQueue, accessToken + 1)[r]]
    /\ failedQueue' = <<>>
    /\ isRefreshing' = FALSE
    /\ refreshRequest' = "none"
    /\ UNCHANGED refreshToken
    /\ UNCHANGED <<pvars, dvars, snapVars, otherTab>>

\* The refresh request fails with an answer other than 401 or without an answer:
\* its interceptor rejects, and the catch block runs processQueue(refreshError,
\* null) and clearAuth() and rejects; the finally block resets the flag.
RefreshError ==
    /\ refreshRequest = "sent"
    /\ authRequests' =
          [r \in RequestIds |->
              IF authRequests[r].state = "refreshing"
              THEN [authRequests[r] EXCEPT !.state = "rejected"]
              ELSE rejectQueued(authRequests, failedQueue)[r]]
    /\ failedQueue' = <<>>
    /\ accessToken' = 0
    /\ refreshToken' = FALSE
    /\ isRefreshing' = FALSE
    /\ refreshRequest' = "none"
    /\ UNCHANGED <<pvars, dvars, snapVars, otherTab>>

\* The refresh request is answered with 401. It was sent through authApi, so the
\* same interceptor runs for it: its config has no _retry and isRefreshing is
\* true, so its promise is put into failedQueue.
Refresh401 ==
    /\ refreshRequest = "sent"
    /\ failedQueue' = Append(failedQueue, RefreshWaiter)
    /\ refreshRequest' = "waiting"
    /\ UNCHANGED <<isRefreshing, authRequests, accessToken, refreshToken>>
    /\ UNCHANGED <<pvars, dvars, snapVars, otherTab>>

\* The answer to a call that is in flight.
Answer(r) == ResponseOk(r) \/ ResponseError(r) \/ Response401(r)

\* The answer to the refresh request.
RefreshAnswer == RefreshOk \/ RefreshError \/ Refresh401

NextAuth ==
    \/ \E r \in RequestIds : SendRequest(r)
    \/ \E r \in RequestIds : ResponseOk(r)
    \/ \E r \in RequestIds : ResponseError(r)
    \/ \E r \in RequestIds : Response401(r)
    \/ RefreshOk
    \/ RefreshError
    \/ Refresh401

-----------------------------------------------------------------------------

SInit ==
    /\ uploadedFiles = InitialProjectName
    /\ mergedProjectsTable = <<>>
    /\ mergedPartsTable = <<>>
    /\ serials = [project |-> 1, part |-> 1]
    /\ savingMergedProject = FALSE
    /\ mergedProjectName = <<>>
    /\ showSaveDialog = FALSE
    /\ snapshotRequests = {}
    /\ listProjects = <<>>
    /\ listError = NoError
    /\ listConfirmDelete = NoValue
    /\ listRequest = NoRequest
    /\ viewProjectInfo = NoValue
    /\ viewParts = <<>>
    /\ viewError = NoError
    /\ viewConfirmDelete = NoValue
    /\ viewRequest = NoRequest
    /\ selectedFileIds = <<>>
    /\ projectDetails = <<>>
    /\ editingProjectName = NoValue
    /\ selectionError = NoError
    /\ renameRequest = NoRequest
    /\ route = "merged-parts"
    /\ otherTab = [loaded |-> FALSE, parts |-> <<>>, editedParts |-> EmptyOverlay,
                   saveRequest |-> NoSaveRequest]
    /\ AInit

Init ==
    /\ PInit
    /\ SInit
    /\ dInput = <<>> /\ dResult = [status |-> "none", conflicts |-> <<>>]

Next ==
    \/ Mount
    \/ \E q \in Selections : Navigate(q)
    \/ \E f \in fetches : MergeByIdOk(f)
    \/ \E f \in fetches : MergeByIdFail(f)
    \/ \E f \in fetches : MergeByNameOk(f)
    \/ \E f \in fetches : MergeByNameFail(f)
    \/ ToggleEditMode
    \/ \E e \in EditsWhileNavigating : SetField(e[1], e[2], e[3])
    \/ SaveChangesStart
    \/ SaveChangesOk
    \/ SaveChangesFail

Spec == Init /\ [][Next]_vars

\* The page opened on one selection that stays: every edit, no navigation.
NextEdit ==
    \/ Mount
    \/ \E f \in fetches : MergeByIdOk(f)
    \/ ToggleEditMode
    \/ \E e \in UserEdits : SetField(e[1], e[2], e[3])
    \/ SaveChangesStart
    \/ SaveChangesOk
    \/ SaveChangesFail

SpecEdit == Init /\ [][NextEdit]_vars

-----------------------------------------------------------------------------
(* MergedParts: saving the working set as a merged project *)

\* Bound of the exploration: how many merged projects are ever saved.
MaxSnapshots == 2

\* What the user types into the name field of the save dialog.
SnapshotNames == { <<"M", "1">>, <<" ">> }

RECURSIVE trimEnd(_)
trimEnd(s) ==
    IF s # <<>> /\ s[Len(s)] \in WhiteSpace THEN trimEnd(SubSeq(s, 1, Len(s) - 1)) ELSE s

\* String.prototype.trim
trim(s) == trimEnd(SkipWhiteSpace(s))

\* The button that opens the dialog: disabled without parts or while saving.
OpenSaveDialog ==
    /\ route = "merged-parts"
    /\ mounted /\ ~showSaveDialog
    /\ parts # <<>> /\ ~savingMergedProject
    /\ showSaveDialog' = TRUE
    /\ UNCHANGED <<authVars, otherTab, route, pvars, dvars, snapStoreVars, savingMergedProject, mergedProjectName,
                   snapshotRequests, listVars, viewVars, selectionVars>>

\* onChange of the dialog's input: setMergedProjectName(e.target.value).
TypeMergedProjectName(name) ==
    /\ showSaveDialog
    /\ mergedProjectName # name
    /\ mergedProjectName' = name
    /\ UNCHANGED <<authVars, otherTab, route, pvars, dvars, snapStoreVars, savingMergedProject, showSaveDialog,
                   snapshotRequests, listVars, viewVars, selectionVars>>

\* A handler that sends the working set with the pending edits applied.
ConfirmSaveMergedProjectWithOverlay ==
    /\ showSaveDialog
    /\ IF trim(mergedProjectName) = <<>>
       THEN /\ saveMessage' = [type |-> "error", updated_count |-> 0]
            /\ UNCHANGED <<route, savingMergedProject, snapshotRequests>>
       ELSE /\ serials.project + Cardinality(snapshotRequests) <= MaxSnapshots
            /\ savingMergedProject' = TRUE
            /\ saveMessage' = NoMessage
            /\ snapshotRequests' = snapshotRequests \cup
                  {[n |-> serials.project + Cardinality(snapshotRequests),
                    body |-> saveMergedProject(mergedProjectName, projectNames,
                                               applyEdits(parts, editedParts),
                                               sourceFileIds)]}
    /\ UNCHANGED <<authVars, otherTab, route, parts, loading, error, projectNames, sourceFileIds, conflictParts,
                   editMode, editedParts, saving, envVars, storeVars, dvars,
                   snapStoreVars, mergedProjectName, showSaveDialog,
                   listVars, viewVars, selectionVars>>

\* handleSaveMergedProject up to `await saveMergedProject(...)`: the request
\* carries the name, projectNames, parts and sourceFileIds of the current render.
ConfirmSaveMergedProject ==
    /\ showSaveDialog
    /\ IF trim(mergedProjectName) = <<>>
       THEN /\ saveMessage' = [type |-> "error", updated_count |-> 0]
            /\ UNCHANGED <<route, savingMergedProject, snapshotRequests>>
       ELSE /\ serials.project + Cardinality(snapshotRequests) <= MaxSnapshots
            /\ savingMergedProject' = TRUE
            /\ saveMessage' = NoMessage
            /\ snapshotRequests' = snapshotRequests \cup
                  {[n |-> serials.project + Cardinality(snapshotRequests),
                    body |-> saveMergedProject(mergedProjectName, projectNames,
                                               parts, sourceFileIds)]}
    /\ UNCHANGED <<authVars, otherTab, route, parts, loading, error, projectNames, sourceFileIds, conflictParts,
                   editMode, editedParts, saving, envVars, storeVars, dvars,
                   snapStoreVars, mergedProjectName, showSaveDialog,
                   listVars, viewVars, selectionVars>>

\* A storage that also accepts a request without parts.
SaveMergedProjectOkUnchecked(r) ==
    /\ r \in snapshotRequests
    /\ mergedProjectsTable' = Append(mergedProjectsTable, insertedProject(r.body, serials))
    /\ mergedPartsTable' = mergedPartsTable \o insertedParts(r.body, serials)
    /\ serials' = [project |-> serials.project + 1, part |-> serials.part + Len(r.body.parts)]
    /\ snapshotRequests' = snapshotRequests \ {r}
    /\ saveMessage' = [type |-> "success", updated_count |-> 0]
    /\ showSaveDialog' = FALSE
    /\ mergedProjectName' = <<>>
    /\ savingMergedProject' = FALSE
    /\ UNCHANGED <<authVars, otherTab, route, parts, loading, error, projectNames, sourceFileIds, conflictParts,
                   editMode, editedParts, saving, envVars, storeVars, dvars,
                   uploadedFiles, listVars, viewVars, selectionVars>>

\* The request is stored and answered with status 'success'.  A request without
\* parts is not stored (EmptyRecordSet).
SaveMergedProjectOk(r) ==
    /\ r \in snapshotRequests
    /\ r.body.parts # <<>>
    /\ mergedProjectsTable' = Append(mergedProjectsTable, insertedProject(r.body, serials))
    /\ mergedPartsTable' = mergedPartsTable \o insertedParts(r.body, serials)
    /\ serials' = [project |-> serials.project + 1, part |-> serials.part + Len(r.body.parts)]
    /\ snapshotRequests' = snapshotRequests \ {r}
    /\ saveMessage' = [type |-> "success", updated_count |-> 0]
    /\ showSaveDialog' = FALSE
    /\ mergedProjectName' = <<>>
    /\ savingMergedProject' = FALSE
    /\ UNCHANGED <<authVars, otherTab, route, parts, loading, error, projectNames, sourceFileIds, conflictParts,
                   editMode, editedParts, saving, envVars, storeVars, dvars,
                   uploadedFiles, listVars, viewVars, selectionVars>>

\* The request is rejected, or answered with another status: nothing is stored.
SaveMergedProjectFail(r) ==
    /\ r \in snapshotRequests
    /\ snapshotRequests' = snapshotRequests \ {r}
    /\ saveMessage' = [type |-> "error", updated_count |-> 0]
    /\ savingMergedProject' = FALSE
    /\ UNCHANGED <<authVars, otherTab, route, parts, loading, error, projectNames, sourceFileIds, conflictParts,
                   editMode, editedParts, saving, envVars, storeVars, dvars,
                   snapStoreVars, mergedProjectName, showSaveDialog,
                   listVars, viewVars, selectionVars>>

\* The selections the user navigates to while saving merged projects.
LineageSelections == {SearchFor(<<F1>>), NoParams}

\* The page with navigation and the save dialog, without edits.
NextLineage ==
    \/ Mount
    \/ \E q \in LineageSelections : Navigate(q)
    \/ \E f \in fetches : MergeByIdOk(f)
    \/ \E f \in fetches : MergeByIdFail(f)
    \/ \E f \in fetches : MergeByNameOk(f)
    \/ \E f \in fetches : MergeByNameFail(f)
    \/ OpenSaveDialog
    \/ \E name \in SnapshotNames : TypeMergedProjectName(name)
    \/ ConfirmSaveMergedProject
    \/ \E r \in snapshotRequests : SaveMergedProjectOk(r)
    \/ \E r \in snapshotRequests : SaveMergedProjectFail(r)

SpecLineage == Init /\ [][NextLineage]_vars

-----------------------------------------------------------------------------
(* MergedProjectList: the saved merged projects *)

ListError == "listRequestFailed"

pageVars == <<pvars, dvars, saveDialogVars>>

\* fetchMergedProjects, called on mount and after a successful deletion, is answered.
ListFetchOk ==
    /\ listRequest.active /\ listRequest.kind = "fetch"
    /\ listProjects' = getMergedProjects(mergedProjectsTable)
    /\ listRequest' = NoRequest
    /\ UNCHANGED <<authVars, otherTab, route, pageVars, snapStoreVars, listError, listConfirmDelete,
                   viewVars, selectionVars>>

ListFetchFail ==
    /\ listRequest.active /\ listRequest.kind = "fetch"
    /\ listError' = ListError
    /\ listRequest' = NoRequest
    /\ UNCHANGED <<authVars, otherTab, route, pageVars, snapStoreVars, listProjects, listConfirmDelete,
                   viewVars, selectionVars>>

\* handleShowDeleteConfirm on a row of the list.
ListShowDeleteConfirm(k) ==
    /\ ~listRequest.active
    /\ listConfirmDelete = NoValue
    /\ k \in 1..Len(listProjects)
    /\ listConfirmDelete' = [isNull |-> FALSE, projectId |-> listProjects[k].id]
    /\ UNCHANGED <<authVars, otherTab, route, pageVars, snapStoreVars, listProjects, listError, listRequest,
                   viewVars, selectionVars>>

\* handleConfirmDelete up to `await deleteMergedProject(...)`.
ListDeleteStart ==
    /\ ~listRequest.active
    /\ listConfirmDelete # NoValue
    /\ listRequest' = [active |-> TRUE, kind |-> "delete",
                       projectId |-> listConfirmDelete.projectId]
    /\ UNCHANGED <<authVars, otherTab, route, pageVars, snapStoreVars, listProjects, listError, listConfirmDelete,
                   viewVars, selectionVars>>

\* status 'success': the rows are gone, the list is fetched again.
ListDeleteOk ==
    /\ listRequest.active /\ listRequest.kind = "delete"
    /\ HasMergedProject(mergedProjectsTable, listRequest.projectId)
    /\ mergedProjectsTable' = deleteMergedProjectRows(mergedProjectsTable, listRequest.projectId)
    /\ mergedPartsTable' = deleteMergedProjectParts(mergedPartsTable, listRequest.projectId)
    /\ listRequest' = [active |-> TRUE, kind |-> "fetch"]
    /\ listError' = NoError
    /\ listConfirmDelete' = NoValue
    /\ UNCHANGED <<authVars, otherTab, route, pageVars, uploadedFiles, serials, listProjects, viewVars, selectionVars>>

\* any other status, or a rejected request: nothing is deleted.
ListDeleteFail ==
    /\ listRequest.active /\ listRequest.kind = "delete"
    /\ listRequest' = NoRequest
    /\ listError' = ListError
    /\ listConfirmDelete' = NoValue
    /\ UNCHANGED <<authVars, otherTab, route, pageVars, snapStoreVars, listProjects, viewVars, selectionVars>>

-----------------------------------------------------------------------------
(* MergedProjectParts: the parts of one saved merged project *)

ViewError == "viewRequestFailed"

\* handleShowDeleteConfirm on a row of the table.
ViewShowDeleteConfirm(k) ==
    /\ ~viewRequest.active
    /\ viewConfirmDelete = NoValue
    /\ k \in 1..Len(viewParts)
    /\ viewConfirmDelete' = [isNull |-> FALSE, partId |-> viewParts[k].id]
    /\ UNCHANGED <<authVars, otherTab, route, pageVars, snapStoreVars, listVars, viewProjectInfo, viewParts,
                   viewError, viewRequest, selectionVars>>

\* handleConfirmDelete up to `await deleteMergedPart(...)`.
ViewDeleteStart ==
    /\ ~viewRequest.active
    /\ viewConfirmDelete # NoValue
    /\ viewRequest' = [active |-> TRUE, partId |-> viewConfirmDelete.partId]
    /\ UNCHANGED <<authVars, otherTab, route, pageVars, snapStoreVars, listVars, viewProjectInfo, viewParts,
                   viewError, viewConfirmDelete, selectionVars>>

\* A filter that identifies the part by its part code.
partsAfterDeleteByCode(partList, partId) ==
    SelectSeq(partList, LAMBDA part :
        \A k \in 1..Len(partList) :
            partList[k].id = partId => part.part_code # partList[k].part_code)

\* parts.filter(part => part.id !== confirmDelete.partId)
partsAfterDelete(partList, partId) ==
    SelectSeq(partList, LAMBDA part : part.id # partId)

\* status 'success': the row is gone and the part leaves the displayed list.
ViewDeleteOk ==
    /\ viewRequest.active
    /\ \E k \in 1..Len(mergedPartsTable) : mergedPartsTable[k].id = viewRequest.partId
    /\ mergedPartsTable' = deleteMergedPart(mergedPartsTable, viewRequest.partId)
    /\ viewParts' = partsAfterDelete(viewParts, viewRequest.partId)
    /\ viewError' = NoError
    /\ viewConfirmDelete' = NoValue
    /\ viewRequest' = NoRequest
    /\ UNCHANGED <<authVars, otherTab, route, pageVars, uploadedFiles, mergedProjectsTable, serials, listVars,
                   viewProjectInfo, selectionVars>>

\* any other status, or a rejected request: the displayed list stays.
ViewDeleteFail ==
    /\ viewRequest.active
    /\ viewError' = ViewError
    /\ viewConfirmDelete' = NoValue
    /\ viewRequest' = NoRequest
    /\ UNCHANGED <<authVars, otherTab, route, pageVars, snapStoreVars, listVars, viewProjectInfo, viewParts,
                   selectionVars>>

-----------------------------------------------------------------------------
(* ProjectSelection: the sources, their names and the selection *)

\* The files the user acts on, and the name typed when renaming.
SelectableFiles == {F1}
NewProjectNames == { Str(<<"C">>) }

\* The text the catch block of handleSaveProjectName puts into error.
RenameError == "renameFailed"

\* handleProjectToggle
toggled(selection, fileId) ==
    IF \E k \in 1..Len(selection) : selection[k] = fileId
    THEN SelectSeq(selection, LAMBDA id : id # fileId)
    ELSE Append(selection, fileId)

ToggleProject(fileId) ==
    /\ fileId \in DOMAIN projectDetails
    /\ selectedFileIds' = toggled(selectedFileIds, fileId)
    /\ UNCHANGED <<authVars, otherTab, selectionError, route, pageVars, snapStoreVars, listVars, viewVars, projectDetails,
                   editingProjectName, renameRequest>>

\* handleEditProjectName, the typed name, and handleSaveProjectName up to
\* `await updateProjectName(...)`.
RenameStart(fileId, newName) ==
    /\ ~renameRequest.active
    /\ fileId \in DOMAIN projectDetails
    /\ projectDetails[fileId] # newName
    /\ editingProjectName' = [isNull |-> FALSE, oldName |-> projectDetails[fileId],
                              newName |-> newName, fileId |-> fileId]
    /\ renameRequest' = [active |-> TRUE, fileId |-> fileId, newName |-> newName]
    /\ selectionError' = NoError
    /\ UNCHANGED <<authVars, otherTab, route, pageVars, snapStoreVars, listVars, viewVars, selectedFileIds,
                   projectDetails>>

\* A handler that also empties the selection.
RenameOkClearingSelection ==
    /\ renameRequest.active
    /\ renameRequest.fileId \in DOMAIN uploadedFiles
    /\ uploadedFiles' = updateProjectName(uploadedFiles, renameRequest.fileId,
                                          renameRequest.newName)
    /\ projectDetails' = uploadedFiles'
    /\ editingProjectName' = NoValue
    /\ renameRequest' = NoRequest
    /\ selectedFileIds' = <<>>
    /\ UNCHANGED <<authVars, otherTab, route, selectionError, pageVars, mergedProjectsTable, mergedPartsTable, serials,
                   listVars, viewVars>>

\* The name is stored; the page fetches the projects again and closes the editor.
RenameOk ==
    /\ renameRequest.active
    /\ renameRequest.fileId \in DOMAIN uploadedFiles
    /\ uploadedFiles' = updateProjectName(uploadedFiles, renameRequest.fileId,
                                          renameRequest.newName)
    /\ projectDetails' = uploadedFiles'
    /\ editingProjectName' = NoValue
    /\ renameRequest' = NoRequest
    /\ UNCHANGED <<authVars, otherTab, route, selectionError, pageVars, mergedProjectsTable, mergedPartsTable, serials,
                   listVars, viewVars, selectedFileIds>>

\* The request is rejected: the editor stays open.
RenameFail ==
    /\ renameRequest.active
    /\ renameRequest' = NoRequest
    /\ selectionError' = RenameError
    /\ UNCHANGED <<authVars, otherTab, route, pageVars, snapStoreVars, listVars, viewVars, selectedFileIds,
                   projectDetails, editingProjectName>>

\* handleConfirmDelete of ProjectSelection, answered with success: the source
\* and its parts are removed, and the file leaves the page's state.
DeleteSource(fileId) ==
    /\ ~renameRequest.active
    /\ fileId \in DOMAIN projectDetails
    /\ fileId \in DOMAIN uploadedFiles
    /\ partsLibrary' = deleteProjectByFileId(partsLibrary, fileId)
    /\ uploadedFiles' = [f \in DOMAIN uploadedFiles \ {fileId} |-> uploadedFiles[f]]
    /\ projectDetails' = [f \in DOMAIN projectDetails \ {fileId} |-> projectDetails[f]]
    /\ selectedFileIds' = SelectSeq(selectedFileIds, LAMBDA id : id # fileId)
    /\ UNCHANGED <<authVars, otherTab, route, compVars, envVars, dvars, saveDialogVars, mergedProjectsTable,
                   mergedPartsTable, serials, listVars, viewVars,
                   editingProjectName, selectionError, renameRequest>>

-----------------------------------------------------------------------------
(* The router: one page is on display; leaving a page discards its state *)

\* A request that writes is waiting for its response.  The exploration lets the
\* user leave a page only when none is.
WriteInFlight ==
    \/ saveRequest.active
    \/ snapshotRequests # {}
    \/ (listRequest.active /\ listRequest.kind = "delete")
    \/ viewRequest.active
    \/ renameRequest.active

\* The state of a page that is not on display is the state of its construction.
MergedPartsUnmounted ==
    /\ parts' = <<>> /\ loading' = TRUE /\ error' = NoError
    /\ projectNames' = <<>> /\ sourceFileIds' = <<>> /\ conflictParts' = <<>>
    /\ editMode' = FALSE /\ editedParts' = EmptyOverlay
    /\ saving' = FALSE /\ saveMessage' = NoMessage
    /\ mounted' = FALSE /\ navCount' = 0 /\ fetches' = {}
    /\ savingMergedProject' = FALSE /\ mergedProjectName' = <<>> /\ showSaveDialog' = FALSE
    /\ UNCHANGED <<search, saveRequest, snapshotRequests>>

MergedProjectListUnmounted ==
    /\ listProjects' = <<>> /\ listError' = NoError
    /\ listConfirmDelete' = NoValue /\ listRequest' = NoRequest

MergedProjectPartsUnmounted ==
    /\ viewProjectInfo' = NoValue /\ viewParts' = <<>> /\ viewError' = NoError
    /\ viewConfirmDelete' = NoValue /\ viewRequest' = NoRequest

ProjectSelectionUnmounted ==
    /\ selectedFileIds' = <<>> /\ projectDetails' = <<>>
    /\ editingProjectName' = NoValue /\ renameRequest' = NoRequest
    /\ selectionError' = NoError

\* The merge page is opened again for the selection in the location.
GotoMergedParts ==
    /\ route # "merged-parts" /\ ~WriteInFlight
    /\ route' = "merged-parts"
    /\ MergedPartsUnmounted /\ MergedProjectListUnmounted
    /\ MergedProjectPartsUnmounted /\ ProjectSelectionUnmounted
    /\ UNCHANGED <<authVars, otherTab, storeVars, dvars, snapStoreVars>>

\* The list page is opened: its effect calls fetchMergedProjects.
GotoMergedProjects ==
    /\ route # "merged-projects" /\ ~WriteInFlight
    /\ route' = "merged-projects"
    /\ MergedPartsUnmounted
    /\ listProjects' = <<>> /\ listError' = NoError /\ listConfirmDelete' = NoValue
    /\ listRequest' = [active |-> TRUE, kind |-> "fetch"]
    /\ MergedProjectPartsUnmounted /\ ProjectSelectionUnmounted
    /\ UNCHANGED <<authVars, otherTab, storeVars, dvars, snapStoreVars>>

\* handleViewParts on a row of the list: the parts page of that merged project
\* is opened and its effect fetches the project and its parts.
handleViewParts(k) ==
    /\ route = "merged-projects" /\ ~WriteInFlight
    /\ k \in 1..Len(listProjects)
    /\ route' = "merged-project-parts"
    /\ MergedPartsUnmounted /\ MergedProjectListUnmounted /\ ProjectSelectionUnmounted
    /\ LET projectId == listProjects[k].id
       IN IF HasMergedProject(mergedProjectsTable, projectId)
          THEN LET data == getMergedProjectParts(mergedProjectsTable, mergedPartsTable,
                                                 projectId)
               IN /\ viewParts' = data.parts
                  /\ viewProjectInfo' = [isNull |-> FALSE,
                                         name |-> data.project.merged_project_name,
                                         id |-> data.project.id]
                  /\ viewError' = NoError
          ELSE /\ viewError' = ViewError
               /\ viewParts' = <<>> /\ viewProjectInfo' = NoValue
    /\ viewConfirmDelete' = NoValue /\ viewRequest' = NoRequest
    /\ UNCHANGED <<authVars, otherTab, storeVars, dvars, snapStoreVars>>

\* The selection page is opened: fetchProjectData fills projectDetails, keyed by
\* file_unique_id.
GotoProjectSelection ==
    /\ route # "project-selection" /\ ~WriteInFlight
    /\ route' = "project-selection"
    /\ MergedPartsUnmounted /\ MergedProjectListUnmounted /\ MergedProjectPartsUnmounted
    /\ selectedFileIds' = <<>> /\ projectDetails' = uploadedFiles
    /\ editingProjectName' = NoValue /\ renameRequest' = NoRequest
    /\ selectionError' = NoError
    /\ UNCHANGED <<authVars, otherTab, storeVars, dvars, snapStoreVars>>

\* The text handleMergeClick puts into error when nothing is selected.
NoSelectionError == "noSelection"

\* selectedFileIds.map(id => projectDetails[id] ? project_name : '')
\*                .filter(name => name !== '')
selectedProjects(selection, details) ==
    SelectSeq([k \in 1..Len(selection) |->
                  IF selection[k] \in DOMAIN details THEN details[selection[k]]
                  ELSE Str(<<>>)],
              LAMBDA name : name # Str(<<>>))

\* The merge page is constructed for a new location.
MergedPartsOpenedAt(q) ==
    /\ route' = "merged-parts"
    /\ search' = q
    /\ parts' = <<>> /\ loading' = TRUE /\ error' = NoError
    /\ projectNames' = <<>> /\ sourceFileIds' = <<>> /\ conflictParts' = <<>>
    /\ editMode' = FALSE /\ editedParts' = EmptyOverlay
    /\ saving' = FALSE /\ saveMessage' = NoMessage
    /\ mounted' = FALSE /\ navCount' = 0 /\ fetches' = {}
    /\ savingMergedProject' = FALSE /\ mergedProjectName' = <<>> /\ showSaveDialog' = FALSE
    /\ MergedProjectListUnmounted /\ MergedProjectPartsUnmounted
    /\ ProjectSelectionUnmounted
    /\ UNCHANGED <<authVars, otherTab, saveRequest, snapshotRequests, storeVars, dvars, snapStoreVars>>

\* handleMergeClick: without a selection it sets the error and returns; with
\* one it navigates to /merged-parts?projects=[...]&fileIds=[...].
handleMergeClick ==
    /\ route = "project-selection" /\ ~WriteInFlight
    /\ IF selectedFileIds = <<>>
       THEN /\ selectionError' = NoSelectionError
            /\ UNCHANGED <<authVars, otherTab, route, pageVars, snapStoreVars, listVars, viewVars,
                           selectedFileIds, projectDetails, editingProjectName,
                           renameRequest>>
       ELSE MergedPartsOpenedAt([has |-> TRUE,
                                 projects |-> selectedProjects(selectedFileIds, projectDetails),
                                 fileIds |-> selectedFileIds])

\* /merged-parts?projects=[]&fileIds=[]: both parameters present, both lists empty.
EmptyLists == [has |-> TRUE, projects |-> <<>>, fileIds |-> <<>>]

\* The locations a user opens the merge page with: a link, a bookmark, the
\* address bar.
Locations == {SearchFor(<<F2, F1>>), NoParams, EmptyLists}

OpenLocation(q) ==
    /\ ~WriteInFlight
    /\ route # "merged-parts" \/ q # search
    /\ MergedPartsOpenedAt(q)

\* Files that can be selected for a merge.
MergeableFiles == {F1, F2}

\* Selecting sources and opening the merge page for them.
NextSelect ==
    \/ GotoProjectSelection
    \/ \E f \in MergeableFiles : ToggleProject(f)
    \/ \E f \in MergeableFiles : DeleteSource(f)
    \/ handleMergeClick
    \/ \E q \in Locations : OpenLocation(q)
    \/ Mount
    \/ \E f \in fetches : MergeByIdOk(f)
    \/ \E f \in fetches : MergeByIdFail(f)
    \/ \E f \in fetches : MergeByNameOk(f)
    \/ \E f \in fetches : MergeByNameFail(f)

SpecSelect == Init /\ [][NextSelect]_vars

-----------------------------------------------------------------------------
(* Two sessions: the same merge page open in a second browser tab *)

\* What the user of this tab types.
SnapshotEdits == { <<3, "spec", <<"X">>>> }

\* What the user of the second tab types.
OtherTabEdits == { <<3, "spec", <<"Z">>>> }

thisTabVars == <<compVars, envVars, dvars, snapVars, authVars>>

\* The second tab loads the merge of the same selection.
OtherTabLoad ==
    /\ ~otherTab.loaded
    /\ search.has /\ search.fileIds # <<>>
    /\ \A k \in 1..Len(search.fileIds) : search.fileIds[k] \in RegisteredFileIds(partsLibrary)
    /\ otherTab' = [otherTab EXCEPT !.loaded = TRUE,
                                    !.parts = mergePartsByFileIds(partsLibrary, search.fileIds)]
    /\ UNCHANGED <<thisTabVars, storeVars>>

\* handleCellChange in the second tab.
OtherTabSetField(partId, field, text) ==
    /\ otherTab.loaded
    /\ \E i \in 1..Len(otherTab.parts) : otherTab.parts[i].id = partId
    /\ field \in EditableFields
    /\ otherTab' = [otherTab EXCEPT !.editedParts =
                       handleCellChange(otherTab.editedParts, partId, field,
                                        cellValue(field, text))]
    /\ UNCHANGED <<thisTabVars, storeVars>>

\* handleSaveChanges in the second tab, up to the await.
OtherTabSaveChangesStart ==
    /\ otherTab.loaded /\ ~otherTab.saveRequest.active
    /\ DOMAIN otherTab.editedParts # {}
    /\ otherTab' = [otherTab EXCEPT !.saveRequest =
                       [active |-> TRUE,
                        partsToUpdate |-> partsToUpdateOf(otherTab.editedParts),
                        editedParts |-> otherTab.editedParts,
                        parts |-> otherTab.parts]]
    /\ UNCHANGED <<thisTabVars, storeVars>>

\* updateParts of the second tab resolves.
OtherTabSaveChangesOk ==
    /\ otherTab.saveRequest.active
    /\ partsLibrary' = updatePartsInLibrary(partsLibrary, otherTab.saveRequest.partsToUpdate)
    /\ otherTab' = [otherTab EXCEPT
                       !.parts = applyEdits(otherTab.parts, otherTab.saveRequest.editedParts),
                       !.editedParts = EmptyOverlay,
                       !.saveRequest = NoSaveRequest]
    /\ UNCHANGED thisTabVars

\* updateParts of the second tab rejects.
OtherTabSaveChangesFail ==
    /\ otherTab.saveRequest.active
    /\ otherTab' = [otherTab EXCEPT !.saveRequest = NoSaveRequest]
    /\ UNCHANGED <<thisTabVars, storeVars>>

NextSessions ==
    \/ Mount
    \/ \E f \in fetches : MergeByIdOk(f)
    \/ ToggleEditMode
    \/ \E e \in SnapshotEdits : SetField(e[1], e[2], e[3])
    \/ SaveChangesStart
    \/ SaveChangesOk
    \/ SaveChangesFail
    \/ OtherTabLoad
    \/ \E e \in OtherTabEdits : OtherTabSetField(e[1], e[2], e[3])
    \/ OtherTabSaveChangesStart
    \/ OtherTabSaveChangesOk
    \/ OtherTabSaveChangesFail

SpecSessions == Init /\ [][NextSessions]_vars

-----------------------------------------------------------------------------
(* The pages together: merge, edit, commit, save, view, delete, rename *)

\* Merge, save, and the stored merged projects: list, view, delete.
NextStore ==
    \/ Mount
    \/ \E f \in fetches : MergeByIdOk(f)
    \/ OpenSaveDialog
    \/ \E name \in SnapshotNames : TypeMergedProjectName(name)
    \/ ConfirmSaveMergedProject
    \/ \E r \in snapshotRequests : SaveMergedProjectOk(r)
    \/ \E r \in snapshotRequests : SaveMergedProjectFail(r)
    \/ GotoMergedParts
    \/ GotoMergedProjects
    \/ ListFetchOk
    \/ ListFetchFail
    \/ \E k \in 1..Len(listProjects) : ListShowDeleteConfirm(k)
    \/ ListDeleteStart
    \/ ListDeleteOk
    \/ ListDeleteFail
    \/ \E k \in 1..Len(listProjects) : handleViewParts(k)
    \/ \E k \in 1..Len(viewParts) : ViewShowDeleteConfirm(k)
    \/ ViewDeleteStart
    \/ ViewDeleteOk
    \/ ViewDeleteFail

SpecStore == Init /\ [][NextStore]_vars

\* Merge, edit, commit and save, next to changes of the sources.
NextSnap ==
    \/ Mount
    \/ \E f \in fetches : MergeByIdOk(f)
    \/ ToggleEditMode
    \/ \E e \in SnapshotEdits : SetField(e[1], e[2], e[3])
    \/ SaveChangesStart
    \/ SaveChangesOk
    \/ SaveChangesFail
    \/ OpenSaveDialog
    \/ \E name \in SnapshotNames : TypeMergedProjectName(name)
    \/ ConfirmSaveMergedProject
    \/ \E r \in snapshotRequests : SaveMergedProjectOk(r)
    \/ \E r \in snapshotRequests : SaveMergedProjectFail(r)
    \/ GotoMergedParts
    \/ GotoMergedProjects
    \/ ListFetchOk
    \/ \E k \in 1..Len(listProjects) : handleViewParts(k)
    \/ GotoProjectSelection
    \/ \E f \in SelectableFiles : ToggleProject(f)
    \/ \E f \in SelectableFiles, name \in NewProjectNames : RenameStart(f, name)
    \/ RenameOk
    \/ RenameFail
    \/ \E f \in SelectableFiles : DeleteSource(f)

SpecSnap == Init /\ [][NextSnap]_vars

\* The calls through authApi alone.
SpecAuth == Init /\ [][NextAuth]_vars

\* The server answers every request that is in flight, or the request times out.
SpecAuthLive ==
    /\ SpecAuth
    /\ \A r \in RequestIds : WF_vars(Answer(r))
    /\ WF_vars(RefreshAnswer)

\* Edits of two records, so that one can be committed while the other is pending.
CommitSaveEdits == { <<3, "spec", <<"X">>>>, <<1, "level", <<"2">>>> }

\* The merged-parts page with its two writes, the commit of the edits and the
\* save of a snapshot, and no other page.
NextCommitSave ==
    \/ Mount
    \/ \E f \in fetches : MergeByIdOk(f)
    \/ ToggleEditMode
    \/ \E e \in CommitSaveEdits : SetField(e[1], e[2], e[3])
    \/ SaveChangesStart
    \/ SaveChangesOk
    \/ SaveChangesFail
    \/ OpenSaveDialog
    \/ TypeMergedProjectName(<<"M", "1">>)
    \/ ConfirmSaveMergedProject
    \/ \E r \in snapshotRequests : SaveMergedProjectOk(r)
    \/ \E r \in snapshotRequests : SaveMergedProjectFail(r)

SpecCommitSave == Init /\ [][NextCommitSave]_vars

-----------------------------------------------------------------------------
(* Inputs of the pure-function harness *)

NameA == Str(<<"A">>)

FileA == Str(<<"f", "1">>)

\* A record of the harness: part code, level, spec, total weight, remark.
PoolPart(code, level, spec, weight, remark) ==
    Part(0, code, NameA, FileA, level, spec, weight, remark)

BasePart(code) == PoolPart(code, Str(<<"1">>), Str(<<"X">>), Num(15), Null)

\* Records that agree with BasePart(P1) except in one field, records of a second
\* code, records whose code is empty, blank or missing, and a record whose code
\* is the name of a member of Object.prototype.
PartPool ==
    { BasePart(Str(P1)),
      PoolPart(Str(P1), Num(10), Str(<<"X">>), Num(15), Null),
      PoolPart(Str(P1), Str(<<"1", ".", "0">>), Str(<<"X">>), Num(15), Null),
      PoolPart(Str(P1), Str(<<"2">>), Str(<<"X">>), Num(15), Null),
      PoolPart(Str(P1), Null, Str(<<"X">>), Num(15), Null),
      PoolPart(Str(P1), Str(<<"0">>), Str(<<"X">>), Num(15), Null),
      PoolPart(Str(P1), Str(<<"A">>), Str(<<"X">>), Num(15), Null),
      PoolPart(Str(P1), Str(<<"1">>), Str(<<"Y">>), Num(15), Null),
      PoolPart(Str(P1), Str(<<"1">>), Null, Num(15), Null),
      PoolPart(Str(P1), Str(<<"1">>), Str(<<"X">>), Str(<<"1", ".", "5">>), Null),
      PoolPart(Str(P1), Str(<<"1">>), Str(<<"X">>), Num(0), Str(<<>>)),
      PoolPart(Str(P1), Str(<<"1">>), Str(<<"X">>), Null, Str(<<"r">>)),
      BasePart(Str(P2)),
      PoolPart(Str(P2), Str(<<"2">>), Str(<<"Y">>), Num(15), Null),
      BasePart(Str(<<>>)),
      PoolPart(Str(<<>>), Str(<<"2">>), Str(<<"Y">>), Num(15), Null),
      BasePart(Str(<<" ">>)),
      PoolPart(Str(<<" ">>), Str(<<"2">>), Str(<<"Y">>), Num(15), Null),
      BasePart(Null),
      BasePart(Str(Constructor)) }

\* Longest list handed to checkForConflicts by the harness.
MaxParts == 3

NotRun == [status |-> "none", conflicts |-> <<>>]

DInit ==
    /\ dInput = <<>>
    /\ dResult = NotRun
    /\ PInit
    /\ SInit

\* The caller extends the list it is about to check.
AddPart(p) ==
    /\ Len(dInput) < MaxParts
    /\ dInput' = Append(dInput, p)
    /\ dResult' = NotRun
    /\ UNCHANGED <<authVars, otherTab, pvars, snapVars>>

\* checkForConflicts(dInput)
Detect ==
    /\ dResult = NotRun
    /\ dResult' = checkForConflicts(dInput)
    /\ UNCHANGED <<authVars, otherTab, dInput, pvars, snapVars>>

NextDetect ==
    \/ \E p \in PartPool : AddPart(p)
    \/ Detect

SpecDetect == DInit /\ [][NextDetect]_vars

\* The records whose lists are checked in every order: records of one code that
\* agree, differ in spec, or write one level in two ways; a record of a second
\* code; a record without code; a record whose code names a member of
\* Object.prototype.
OrderPool ==
    { BasePart(Str(P1)),
      PoolPart(Str(P1), Num(10), Str(<<"X">>), Num(15), Null),
      PoolPart(Str(P1), Str(<<"2">>), Str(<<"X">>), Num(15), Null),
      PoolPart(Str(P1), Str(<<"1">>), Str(<<"Y">>), Num(15), Null),
      PoolPart(Str(P2), Str(<<"2">>), Str(<<"Y">>), Num(15), Null),
      BasePart(Str(<<>>)),
      BasePart(Str(Constructor)) }

NextOrder ==
    \/ \E p \in OrderPool : AddPart(p)
    \/ Detect

SpecOrder == DInit /\ [][NextOrder]_vars

-----------------------------------------------------------------------------
(* Properties of checkForConflicts, checked under SpecDetect *)

IsBlank(chars) == \A i \in 1..Len(chars) : chars[i] \in WhiteSpace

\* The part codes of a list that carry identity: strings that are not blank.
NonBlankCodes(records) ==
    {c \in {records[i].part_code : i \in 1..Len(records)} : c.t = "str" /\ ~IsBlank(c.s)}

Carriers(records, code) == SelectSeq(records, LAMBDA r : r.part_code = code)

\* The integer a level stands for: missing and empty levels count as 0, text is
\* read as a decimal integer, and text with no leading digit has no integer (NaN).
LevelInteger(part) ==
    IF part.level.t = "num" /\ part.level.n # 0 THEN parseInt(NumberToString(part.level.n))
    ELSE IF part.level.t = "str" /\ part.level.s # <<>> THEN parseInt(part.level.s)
    ELSE Int32(0)

\* The normalized value of a compared field: the level as an integer, any other
\* field as a string, a missing value as the empty string.
NormalizedValue(part, field) ==
    IF field = "level" THEN <<"level", LevelInteger(part), <<>> >>
    ELSE IF part[field] = Null THEN <<"text", NaN, <<>> >>
    ELSE <<"text", NaN, StringOf(part[field])>>

DisagreeingFields(group) ==
    {f \in CompareFields :
        \E i, j \in 1..Len(group) : NormalizedValue(group[i], f) # NormalizedValue(group[j], f)}

ReportedFields(entry) == {entry.conflictFields[i] : i \in 1..Len(entry.conflictFields)}

\* C1: once checkForConflicts has run on a list, it has returned a map that has an
\* entry for a part code exactly when at least two records carry the code and
\* disagree on a compared field after normalization, and the entry lists exactly
\* the fields they disagree on.
C1_ConflictMapExact ==
    dResult.status # "none" =>
        /\ dResult.status = "ok"
        /\ \A code \in NonBlankCodes(dInput) :
            LET group == Carriers(dInput, code)
                expected == Len(group) >= 2 /\ DisagreeingFields(group) # {}
            IN /\ (code.s \in DOMAIN dResult.conflicts) <=> expected
               /\ expected =>
                    /\ ReportedFields(dResult.conflicts[code.s]) = DisagreeingFields(group)
                    /\ Len(dResult.conflicts[code.s].conflictFields)
                         = Cardinality(DisagreeingFields(group))

\* The same statement for the runs in which no TypeError is raised.
C1_ExactWhenReturned ==
    dResult.status = "ok" =>
        \A code \in NonBlankCodes(dInput) :
            LET group == Carriers(dInput, code)
                expected == Len(group) >= 2 /\ DisagreeingFields(group) # {}
            IN /\ (code.s \in DOMAIN dResult.conflicts) <=> expected
               /\ expected =>
                    ReportedFields(dResult.conflicts[code.s]) = DisagreeingFields(group)

\* C3: once checkForConflicts has run, for every group of two or more records
\* sharing a part code, level is reported as a conflict field of that code
\* exactly when two members' levels stand for different integers.
C3_LevelReportedIffIntegersDiffer ==
    dResult.status # "none" =>
        \A i \in 1..Len(dInput) :
            LET code == dInput[i].part_code
                group == Carriers(dInput, code)
                reported == /\ dResult.status = "ok"
                            /\ code.s \in DOMAIN dResult.conflicts
                            /\ "level" \in ReportedFields(dResult.conflicts[code.s])
            IN (Truthy(code) /\ Len(group) >= 2) =>
                 (reported <=> \E a, b \in 1..Len(group) :
                                   LevelInteger(group[a]) # LevelInteger(group[b]))

\* The comparison of one group, whatever else the list holds: it lists level
\* exactly when two members' levels stand for different integers.
C3_LevelComparedAsInteger ==
    \A i \in 1..Len(dInput) :
        LET group == Carriers(dInput, dInput[i].part_code)
            fields == conflictFields(group)
        IN (Truthy(dInput[i].part_code) /\ Len(group) >= 2) =>
             ( (\E k \in 1..Len(fields) : fields[k] = "level")
               <=> (\E a, b \in 1..Len(group) : LevelInteger(group[a]) # LevelInteger(group[b])) )

\* C3 witness: a list in which the same level is written as the text "1", the
\* number 1 and the text "1.0" has been checked and no conflict was reported.
C3_Witness ==
    /\ dResult.status = "ok"
    /\ Len(dInput) = 3
    /\ \A i \in 1..3 : dInput[i].part_code = Str(P1)
    /\ {dInput[i].level : i \in 1..3} = {Str(<<"1">>), Num(10), Str(<<"1", ".", "0">>)}
    /\ dResult.conflicts = <<>>

\* C4: the conflict map has no entry keyed by an empty or blank code, and the
\* records with such codes do not change the entries of the other codes.
C4_BlankCodesNeverGrouped ==
    dResult.status = "ok" =>
        /\ \A k \in DOMAIN dResult.conflicts : ~IsBlank(k)
        /\ LET rest == SelectSeq(dInput,
                           LAMBDA r : r.part_code.t = "str" /\ ~IsBlank(r.part_code.s))
           IN \A k \in DOMAIN checkForConflicts(rest).conflicts :
                  /\ k \in DOMAIN dResult.conflicts
                  /\ dResult.conflicts[k] = checkForConflicts(rest).conflicts[k]

\* C5: checkForConflicts never raises an error: whenever it has run it has
\* returned a conflict map.
C5_NeverFails == dResult.status # "threw"

-----------------------------------------------------------------------------
(* Properties of the MergedParts page, checked under Spec *)

SourceRows(library, fileId) == SelectSeq(library, LAMBDA row : row.file_unique_id = fileId)

RECURSIVE TotalRows(_, _)
TotalRows(library, fileIds) ==
    IF fileIds = <<>> THEN 0
    ELSE Len(SourceRows(library, Head(fileIds))) + TotalRows(library, Tail(fileIds))

\* merged is the rows of the files, file after file in the order given, each
\* file's rows in their stored order.
IsConcatenationOf(merged, library, fileIds) ==
    /\ Len(merged) = TotalRows(library, fileIds)
    /\ \A k \in 1..Len(fileIds) :
         \A j \in 1..Len(SourceRows(library, fileIds[k])) :
            merged[TotalRows(library, SubSeq(fileIds, 1, k - 1)) + j]
                = SourceRows(library, fileIds[k])[j]

\* C2: when a merge by file ids answers, the answer is the concatenation of the
\* selected files' rows and the page stores exactly that list as its working set.
C2_MergeStoredUnchanged ==
    [][\A f \in fetches :
          MergeByIdOk(f) =>
             /\ IsConcatenationOf(mergePartsByFileIds(partsLibrary, f.fileIds),
                                  partsLibrary, f.fileIds)
             /\ parts' = mergePartsByFileIds(partsLibrary, f.fileIds)]_vars

\* The same statement for the answers in which no part code is the name of a
\* member of Object.prototype.
C2_StoredUnchangedWhenChecked ==
    [][\A f \in fetches :
          (MergeByIdOk(f) /\ error' = NoError) =>
             /\ IsConcatenationOf(parts', partsLibrary, f.fileIds)
             /\ Len(parts') = TotalRows(partsLibrary, f.fileIds)]_vars

PendingFields(overlay, partId) ==
    IF partId \in DOMAIN overlay THEN DOMAIN overlay[partId] ELSE {}

\* C6: a commit sends one entry per record with a pending edit, holding the id
\* and the edited fields only; when it succeeds, every edit it sent is applied
\* to its record in the working set, every other record and field is unchanged,
\* and the overlay is empty.
C6_CommitAppliesExactlyTheEdits ==
    [][/\ SaveChangesStart =>
             LET sent == saveRequest'.partsToUpdate
             IN /\ {sent[k]["id"] : k \in 1..Len(sent)} = DOMAIN editedParts
                /\ Len(sent) = Cardinality(DOMAIN editedParts)
                /\ \A k \in 1..Len(sent) :
                      /\ DOMAIN sent[k] = {"id"} \cup DOMAIN editedParts[sent[k]["id"]]
                      /\ \A f \in DOMAIN sent[k] \ {"id"} :
                            sent[k][f] = editedParts[sent[k]["id"]][f]
       /\ SaveChangesOk =>
             /\ Len(parts') = Len(parts)
             /\ \A i \in 1..Len(parts) :
                   /\ DOMAIN parts'[i] = DOMAIN parts[i]
                   /\ \A f \in DOMAIN parts[i] :
                        parts'[i][f] =
                           IF f \in PendingFields(saveRequest.editedParts, parts[i].id)
                           THEN saveRequest.editedParts[parts[i].id][f]
                           ELSE parts[i][f]
             /\ editedParts' = EmptyOverlay]_vars

\* C6 witness: a commit has succeeded that changed the spec of record 3 and left
\* record 1 as merged; the overlay is empty.
C6_Witness ==
    /\ saveMessage.type = "success"
    /\ editedParts = EmptyOverlay
    /\ \E i, j \in 1..Len(parts) :
          /\ parts[i].id = 3 /\ parts[i].spec = Str(<<"X">>)
          /\ parts[j].id = 1 /\ parts[j] = InitialPartsLibrary[1]

\* The conflict map of a list, stated from the records: an entry for every
\* non-empty code that two or more records carry with a disagreeing field.
ConflictsOf(records) ==
    LET codes == {c \in {records[i].part_code : i \in 1..Len(records)} : Truthy(c)}
        conflicting == {c \in codes : /\ Len(Carriers(records, c)) >= 2
                                      /\ DisagreeingFields(Carriers(records, c)) # {}}
    IN [k \in {StringOf(c) : c \in conflicting} |->
          DisagreeingFields(Carriers(records, Str(k)))]

ReportedConflicts(map) == [k \in DOMAIN map |-> ReportedFields(map[k])]

\* C7: after a successful commit the conflict map is the conflict map of the
\* working set, committed edits applied.
C7_ConflictMapFreshAfterCommit ==
    [][(SaveChangesOk /\ saveMessage'.type = "success") =>
          ReportedConflicts(conflictParts') = ConflictsOf(parts')]_vars

\* The conflict map set by a successful commit is that of the list the commit
\* was started on, with its edits applied.
C7_ConflictMapOfCommittedList ==
    [][(SaveChangesOk /\ saveMessage'.type = "success") =>
          ReportedConflicts(conflictParts')
             = ConflictsOf(applyEdits(saveRequest.parts, saveRequest.editedParts))]_vars

\* C8: setting a field changes the overlay only: the working set, the conflict
\* map and storage are unchanged, the overlay holds the value written for that
\* record and field, and every other pending edit is as it was.
C8_SetFieldOnlyTouchesOverlay ==
    [][\A e \in UserEdits :
          SetField(e[1], e[2], e[3]) =>
             /\ UNCHANGED <<parts, conflictParts, partsLibrary, saveRequest>>
             /\ DOMAIN editedParts' = DOMAIN editedParts \cup {e[1]}
             /\ DOMAIN editedParts'[e[1]] = PendingFields(editedParts, e[1]) \cup {e[2]}
             /\ editedParts'[e[1]][e[2]] = cellValue(e[2], e[3])
             /\ \A k \in DOMAIN editedParts : \A f \in DOMAIN editedParts[k] :
                   <<k, f>> # <<e[1], e[2]>> => editedParts'[k][f] = editedParts[k][f]]_vars

\* C8 witness: edits to two records are pending, the spec of record 3 holding
\* the text typed last, and the working set still holds the merged values.
C8_Witness ==
    /\ 1 \in DOMAIN editedParts /\ 3 \in DOMAIN editedParts
    /\ editedParts[3]["spec"] = Str(<<"Z">>)
    /\ editedParts[1]["level"] = Str(<<"2">>)
    /\ \E i \in 1..Len(parts) : parts[i] = InitialPartsLibrary[3]

\* C9: leaving edit mode clears every pending edit and persists nothing.
C9_LeavingEditModeDiscards ==
    [][(editMode /\ ~editMode') =>
          /\ editedParts' = EmptyOverlay
          /\ UNCHANGED <<parts, conflictParts, partsLibrary, saveRequest>>]_vars

IdentityFields == {"part_code", "project_name", "file_unique_id"}

IdentityOf(records) ==
    [i \in 1..Len(records) |-> [f \in IdentityFields \cup {"id"} |-> records[i][f]]]

C16_OriginalIdErrorSurfaced ==
    [][\A f \in fetches : MergeByNameFail(f) => error' = f.idError]_vars

\* After a failed merge by file ids the merge by names is sent with the names
\* of the same selection, and its answer becomes the working set.
C16_FallbackResultBecomesWorkingSet ==
    [][\A f \in fetches :
          /\ MergeByIdFail(f) =>
                \E g \in fetches' : /\ g.stage = "byName" /\ g.n = f.n
                                    /\ g.projects = SearchFor(f.fileIds).projects
          /\ (MergeByNameOk(f) /\ error' = NoError) =>
                parts' = mergeParts(partsLibrary, f.projects)]_vars

\* C17: a merge whose two attempts fail leaves the working set, the shown
\* source names and ids and the conflict map as they were.
C17_FailedMergeLeavesStateUntouched ==
    [][\A f \in fetches :
          MergeByNameFail(f) =>
             UNCHANGED <<parts, projectNames, sourceFileIds, conflictParts>>]_vars

Orderings(n) == {p \in [1..n -> 1..n] : \A i, j \in 1..n : p[i] = p[j] => i = j}

Permuted(records, p) == [i \in 1..Len(records) |-> records[p[i]]]

SameConflicts(r1, r2) ==
    /\ r1.status = r2.status
    /\ DOMAIN r1.conflicts = DOMAIN r2.conflicts
    /\ \A k \in DOMAIN r1.conflicts :
          ReportedFields(r1.conflicts[k]) = ReportedFields(r2.conflicts[k])

\* C19: checkForConflicts gives every permutation of a list the same outcome:
\* the same set of part codes and, for each code, the same set of conflict fields.
C19_OrderIndependent ==
    dResult.status # "none" =>
        \A p \in Orderings(Len(dInput)) :
            SameConflicts(checkForConflicts(Permuted(dInput, p)), dResult)

\* C19 witness: a list of three records of one part code whose first two agree
\* and whose third has another spec has been checked, and spec is reported.
C19_Witness ==
    /\ dResult.status = "ok"
    /\ Len(dInput) = 3
    /\ dInput[1] = dInput[2]
    /\ dInput[3].spec # dInput[1].spec
    /\ \A i \in 1..3 : dInput[i].part_code = Str(P1)
    /\ P1 \in DOMAIN dResult.conflicts
    /\ "spec" \in ReportedFields(dResult.conflicts[P1])

\* Every edit of the overlay names a record of the list, and the record
\* already holds the edited value.
AlreadyApplied(partList, edited) ==
    /\ edited # EmptyOverlay
    /\ DOMAIN edited \subseteq {partList[i].id : i \in 1..Len(partList)}
    /\ \A i \in 1..Len(partList) :
          \A f \in PendingFields(edited, partList[i].id) :
             partList[i][f] = edited[partList[i].id][f]

\* C20: a successful commit of edits that the working set already holds, which
\* it does only after the same edits have been committed, leaves the working set
\* and the conflict map as the first commit left them.
C20_RecommitIsIdempotent ==
    [][(/\ SaveChangesOk
        /\ saveMessage'.type = "success"
        /\ AlreadyApplied(parts, saveRequest.editedParts)) =>
          /\ parts' = parts
          /\ conflictParts' = conflictParts]_vars

\* The merged_projects row a request for the current selection would create
\* holds the selected file ids, and at every position the display name of the
\* file at that position.
LineageOf(row) ==
    /\ Len(row.source_projects) = Len(row.source_file_ids)
    /\ \A k \in 1..Len(row.source_file_ids) :
          /\ row.source_file_ids[k] \in DOMAIN InitialProjectName
          /\ row.source_projects[k] = InitialProjectName[row.source_file_ids[k]]

\* C12: a successful save stores a merged project under the given name whose
\* source_file_ids are the file ids of the merge on display, in order, and whose
\* source_projects are the display names of those files, position by position.
C12_LineageRecorded ==
    [][\A r \in snapshotRequests :
          SaveMergedProjectOk(r) =>
             LET row == mergedProjectsTable'[Len(mergedProjectsTable')]
             IN /\ row.merged_project_name = r.body.merged_project_name
                /\ row.source_file_ids = sourceFileIds
                /\ LineageOf(row)]_vars

\* What a failed request must leave as it was: the working set, the overlay, the
\* conflict map, what the page shows next to them, and everything stored.
DisplayedAndStored ==
    <<parts, editedParts, conflictParts, projectNames, sourceFileIds, error, editMode,
      partsLibrary, mergedProjectsTable, mergedPartsTable>>

\* C18: a commit that fails, and a save of the merged project that fails, leave
\* the working set, the pending edits and the conflict map as they were; the
\* error message is set; the pending edits can be committed again, and the
\* dialog still holds the name for another attempt.
C18_FailedWriteLeavesStateUntouched ==
    [][/\ SaveChangesFail =>
            /\ DisplayedAndStored' = DisplayedAndStored
            /\ saveMessage'.type = "error"
            /\ ~saving' /\ ~saveRequest'.active
            /\ (editMode /\ DOMAIN editedParts # {}) =>
                  (mounted' /\ editMode' /\ DOMAIN editedParts' # {})
       /\ \A r \in snapshotRequests :
            SaveMergedProjectFail(r) =>
               /\ DisplayedAndStored' = DisplayedAndStored
               /\ saveMessage'.type = "error"
               /\ ~savingMergedProject'
               /\ showSaveDialog' = showSaveDialog
               /\ mergedProjectName' = mergedProjectName]_vars

\* A commit of pending edits has failed and the edits are still pending; and a
\* save of the merged project has failed with the dialog still open.
C18_Witness ==
    /\ saveMessage.type = "error"
    /\ ~saving /\ ~saveRequest.active
    /\ editMode /\ DOMAIN editedParts # {}
    /\ parts # <<>>
    /\ ~showSaveDialog

\* getSnapshotParts of a stored merged project.
LoadedParts(projectId) ==
    getMergedProjectParts(mergedProjectsTable, mergedPartsTable, projectId).parts

\* The stored rows hold the given parts: as many, in the same order, and equal in
\* every data column.
SameRecords(rows, partList) ==
    /\ Len(rows) = Len(partList)
    /\ \A k \in 1..Len(rows) : \A f \in MergedPartColumns : rows[k][f] = partList[k][f]

ProjectRow(projectsTable, projectId) ==
    SelectSeq(projectsTable, LAMBDA row : row.id = projectId)[1]

\* The merged_parts rows of the given merged project, in table order.
PartRows(partsTable, projectId) ==
    SelectSeq(partsTable, LAMBDA row : row.merged_project_id = projectId)

WithoutPart(rows, partId) == SelectSeq(rows, LAMBDA row : row.id # partId)

\* C14: a successful deletion of a part removes exactly the row with that id:
\* its merged project has one row less, the other rows keep their fields and
\* their order, every other merged project keeps its rows, and the displayed
\* list loses exactly that part; a failed deletion removes nothing and leaves
\* the displayed list as it was.
C14_DeletePartRemovesExactlyThatCopy ==
    [][/\ ViewDeleteOk =>
            LET partId == viewRequest.partId
                owner == CHOOSE p \in 1..MaxSnapshots :
                            \E k \in 1..Len(mergedPartsTable) :
                               /\ mergedPartsTable[k].id = partId
                               /\ mergedPartsTable[k].merged_project_id = p
            IN /\ Len(PartRows(mergedPartsTable', owner))
                     = Len(PartRows(mergedPartsTable, owner)) - 1
               /\ PartRows(mergedPartsTable', owner)
                     = WithoutPart(PartRows(mergedPartsTable, owner), partId)
               /\ \A p \in (1..MaxSnapshots) \ {owner} :
                     PartRows(mergedPartsTable', p) = PartRows(mergedPartsTable, p)
               /\ mergedProjectsTable' = mergedProjectsTable
               /\ Len(viewParts') = Len(viewParts) - 1
               /\ viewParts' = WithoutPart(viewParts, partId)
       /\ ViewDeleteFail =>
            /\ viewParts' = viewParts
            /\ mergedPartsTable' = mergedPartsTable
            /\ viewError' # NoError]_vars

\* The parts page shows two of the three parts of a merged project after one
\* was deleted, while the other merged project still has its three parts.
C14_Witness ==
    /\ route = "merged-project-parts"
    /\ ~viewRequest.active /\ viewError = NoError
    /\ Len(viewParts) = 2
    /\ viewParts = PartRows(mergedPartsTable, viewProjectInfo.id)
    /\ \E p \in 1..MaxSnapshots :
          /\ p # viewProjectInfo.id
          /\ HasMergedProject(mergedProjectsTable, p)
          /\ Len(PartRows(mergedPartsTable, p)) = 3

\* C13: a merged project is absent, then saved, then deleted.  It appears only
\* by a successful save, under a key never used before; a successful deletion
\* removes its row and all of its part rows, so neither the list nor the parts
\* of that key return it; a key once deleted stays empty; and while it is saved
\* its row never changes and its part rows only change by a successful deletion
\* of a part, which leaves the remaining rows as they were.
C13_SnapshotLifecycle ==
    [][\A id \in 1..MaxSnapshots :
          LET has == HasMergedProject(mergedProjectsTable, id)
              hasNext == HasMergedProject(mergedProjectsTable', id)
              rows == PartRows(mergedPartsTable, id)
              rowsNext == PartRows(mergedPartsTable', id)
          IN /\ (~has /\ hasNext) =>
                   /\ id = serials.project
                   /\ \E r \in snapshotRequests : SaveMergedProjectOk(r)
             /\ (~has /\ id < serials.project) => (~hasNext /\ rowsNext = <<>>)
             /\ (has /\ ~hasNext) =>
                   /\ ListDeleteOk /\ listRequest.projectId = id
                   /\ rowsNext = <<>>
                   /\ \A k \in 1..Len(getMergedProjects(mergedProjectsTable')) :
                         getMergedProjects(mergedProjectsTable')[k].id # id
             /\ (ListDeleteOk /\ listRequest.projectId = id) => ~hasNext
             /\ (has /\ hasNext) =>
                   /\ ProjectRow(mergedProjectsTable', id) = ProjectRow(mergedProjectsTable, id)
                   /\ \/ rowsNext = rows
                      \/ /\ ViewDeleteOk
                         /\ rowsNext = WithoutPart(rows, viewRequest.partId)
             /\ has => id < serials.project]_vars

\* The list page shows the stored merged projects after the first one, saved
\* and then deleted, is gone, and a later one is stored under a new key.
C13_Witness ==
    /\ route = "merged-projects" /\ ~listRequest.active
    /\ serials.project = 3
    /\ ~HasMergedProject(mergedProjectsTable, 1)
    /\ PartRows(mergedPartsTable, 1) = <<>>
    /\ HasMergedProject(mergedProjectsTable, 2)
    /\ listProjects = getMergedProjects(mergedProjectsTable)

\* C15: a successful rename changes the display name of that one file and
\* nothing else: the file ids, the names of the other files, the parts of every
\* file, the selection of file ids on the page, and the rows of every stored
\* merged project stay, and a merge by that file id returns the same records.
\* A failed rename changes none of them, the name included.
C15_RenameChangesOnlyTheName ==
    [][/\ RenameOk =>
            LET fileId == renameRequest.fileId
            IN /\ DOMAIN uploadedFiles' = DOMAIN uploadedFiles
               /\ uploadedFiles'[fileId] = renameRequest.newName
               /\ \A f \in DOMAIN uploadedFiles \ {fileId} : uploadedFiles'[f] = uploadedFiles[f]
               /\ partsLibrary' = partsLibrary
               /\ selectedFileIds' = selectedFileIds
               /\ mergedProjectsTable' = mergedProjectsTable
               /\ mergedPartsTable' = mergedPartsTable
               /\ mergePartsByFileIds(partsLibrary', <<fileId>>)
                     = mergePartsByFileIds(partsLibrary, <<fileId>>)
       /\ RenameFail =>
            /\ uploadedFiles' = uploadedFiles
            /\ partsLibrary' = partsLibrary
            /\ selectedFileIds' = selectedFileIds
            /\ mergedProjectsTable' = mergedProjectsTable
            /\ mergedPartsTable' = mergedPartsTable]_vars

\* File f1 is selected and has been renamed, and a merged project saved before
\* the rename still records the name the file had then.
C15_Witness ==
    /\ route = "project-selection" /\ ~renameRequest.active
    /\ selectedFileIds = <<F1>>
    /\ F1 \in DOMAIN uploadedFiles
    /\ uploadedFiles[F1] = Str(<<"C">>)
    /\ projectDetails = uploadedFiles
    /\ mergedProjectsTable # <<>>
    /\ mergedProjectsTable[1].source_file_ids = <<F2, F1>>
    /\ mergedProjectsTable[1].source_projects = <<Str(<<"B">>), Str(<<"A">>)>>
    /\ mergedPartsTable # <<>>

\* C21: handleMergeClick without a selected file sets the error, leaves the
\* page and sends nothing; and the merge page never sends a merge request for
\* an empty list of file ids.
C21_NoMergeOfEmptySelection ==
    [][/\ (handleMergeClick /\ selectedFileIds = <<>>) =>
            /\ selectionError' = NoSelectionError
            /\ route' = route /\ search' = search /\ fetches' = fetches
       /\ \A f \in fetches' \ fetches : f.fileIds # <<>>]_vars

Persisted(library, partsToUpdate) ==
    \A k \in 1..Len(partsToUpdate) :
       \A i \in 1..Len(library) :
          library[i].id = partsToUpdate[k]["id"] =>
             \A f \in DOMAIN partsToUpdate[k] \ {"id"} : library[i][f] = partsToUpdate[k][f]

\* C23: the pending edits of a session are its own: typing in one tab changes
\* neither the stored rows nor anything in the other tab, so a load by the other
\* tab returns the stored rows without them.  No commit waits for or is refused
\* because of the other tab: while a commit request is in flight it can be
\* persisted, whatever the other tab has stored meanwhile.  Every commit that
\* is persisted overwrites the stored fields with its own values, so of two
\* commits to the same field the later one is what is stored.
C23_SessionsAreLastWriteWins ==
    [][/\ (editedParts' # editedParts /\ ~SaveChangesOk) =>
             (partsLibrary' = partsLibrary /\ otherTab' = otherTab)
       /\ (otherTab'.editedParts # otherTab.editedParts /\ ~OtherTabSaveChangesOk) =>
             (partsLibrary' = partsLibrary /\ UNCHANGED compVars)
       /\ OtherTabLoad =>
             otherTab'.parts = mergePartsByFileIds(partsLibrary, search.fileIds)
       /\ saveRequest.active => ENABLED SaveChangesOk
       /\ otherTab.saveRequest.active => ENABLED OtherTabSaveChangesOk
       /\ SaveChangesOk => Persisted(partsLibrary', saveRequest.partsToUpdate)
       /\ OtherTabSaveChangesOk =>
             Persisted(partsLibrary', otherTab.saveRequest.partsToUpdate)]_vars

\* Both tabs have committed a different spec for part 3; the second tab was
\* persisted last, its value is stored, and this tab still shows its own.
C23_Witness ==
    /\ ~saveRequest.active /\ ~otherTab.saveRequest.active
    /\ editedParts = EmptyOverlay /\ otherTab.editedParts = EmptyOverlay
    /\ \E i \in 1..Len(parts) : parts[i].id = 3 /\ parts[i].spec = Str(<<"X">>)
    /\ \E i \in 1..Len(otherTab.parts) :
          otherTab.parts[i].id = 3 /\ otherTab.parts[i].spec = Str(<<"Z">>)
    /\ \E i \in 1..Len(partsLibrary) :
          partsLibrary[i].id = 3 /\ partsLibrary[i].spec = Str(<<"Z">>)

\* C24: whenever the merge page shows a result and neither a load nor a commit
\* is in progress, the conflict map on display is the result of
\* checkForConflicts for the working set on display; in particular it is empty
\* when a load has emptied the working set.
C24_ConflictMapMatchesWorkingSet ==
    (mounted /\ ~loading /\ fetches = {} /\ ~saveRequest.active /\ ~saving) =>
        LET r == checkForConflicts(parts)
        IN /\ r.status = "ok"
           /\ DOMAIN conflictParts = DOMAIN r.conflicts
           /\ \A k \in DOMAIN conflictParts : conflictParts[k] = r.conflicts[k]

\* The value is shown in the working set and stored for that part.
AppliedAndStored(partList, library, partId, field, value) ==
    /\ \E i \in 1..Len(partList) : partList[i].id = partId /\ partList[i][field] = value
    /\ \E i \in 1..Len(library) : library[i].id = partId /\ library[i][field] = value

\* C25: when a commit completes, every edit that was pending just before,
\* those typed while the request was in flight included, is either still
\* pending or applied to the working set and stored.
C25_NoPendingEditLostByCommit ==
    [][SaveChangesOk =>
          \A partId \in DOMAIN editedParts :
             \A field \in DOMAIN editedParts[partId] :
                \/ /\ partId \in DOMAIN editedParts'
                   /\ field \in DOMAIN editedParts'[partId]
                   /\ editedParts'[partId][field] = editedParts[partId][field]
                \/ AppliedAndStored(parts', partsLibrary', partId, field,
                                    editedParts[partId][field])]_vars

\* C26: while a save request of the dialog is waiting for its answer, no
\* further save request is sent; so the requests of one dialog never create
\* more than one merged project.
C26_OneSaveRequestAtATime ==
    [][snapshotRequests' \ snapshotRequests # {} => snapshotRequests = {}]_vars

\* C27: the file ids of every save request that is sent are the ids whose merge
\* is the working set in that request.
C27_LineageMatchesContents ==
    [][\A q \in snapshotRequests' \ snapshotRequests :
          q.body.parts = mergePartsByFileIds(partsLibrary, q.body.source_file_ids)]_vars

\* C28: a save request carries the working set as it is on display: committed
\* edits are in it, pending edits are not; and neither sending the request nor
\* its answer changes the working set, the pending edits or the conflict map.
C28_SaveSendsCommittedStateOnly ==
    [][/\ \A q \in snapshotRequests' \ snapshotRequests :
             /\ q.body.parts = parts
             /\ \A i \in 1..Len(parts) :
                   \A field \in EditableFields :
                      (/\ parts[i].id \in DOMAIN editedParts
                       /\ field \in DOMAIN editedParts[parts[i].id]
                       /\ editedParts[parts[i].id][field] # parts[i][field]) =>
                         q.body.parts[i][field] # editedParts[parts[i].id][field]
       /\ (\/ ConfirmSaveMergedProject
           \/ \E r \in snapshotRequests : SaveMergedProjectOk(r) \/ SaveMergedProjectFail(r)) =>
             UNCHANGED <<parts, editedParts, conflictParts>>]_vars

\* A save request is in flight that holds the committed level of part 1 and
\* not the pending spec of part 3, which is still in the overlay.
C28_Witness ==
    /\ 3 \in DOMAIN editedParts /\ "spec" \in DOMAIN editedParts[3]
    /\ editedParts[3]["spec"] = Str(<<"X">>)
    /\ \E q \in snapshotRequests :
          /\ q.body.parts = parts
          /\ \E i, j \in 1..Len(q.body.parts) :
                /\ q.body.parts[i].id = 3 /\ q.body.parts[i].spec = Str(<<"Y">>)
                /\ q.body.parts[j].id = 1 /\ q.body.parts[j].level = Str(<<"2">>)
    /\ \E i \in 1..Len(partsLibrary) :
          partsLibrary[i].id = 1 /\ partsLibrary[i].level = Str(<<"2">>)

\* C29: when the answer to a merge that was requested for a changed selection
\* is loaded into the working set, no pending edit is left in the overlay.
C29_OverlayEmptyWhenNewMergeLoads ==
    [][\A f \in fetches :
          (/\ f.n > 0
           /\ MergeByIdOk(f) \/ MergeByNameOk(f)
           /\ parts' # <<>>) => editedParts' = EmptyOverlay]_vars

\* C30: a call that is queued behind a token refresh is eventually sent again
\* or rejected, and whenever no answer to a refresh request is outstanding the
\* refreshing flag is false and the queue is empty.
C30_TokenRefreshCompletes ==
    /\ \A r \in RequestIds :
          (authRequests[r].state = "waiting") ~> (authRequests[r].state # "waiting")
    /\ [](refreshRequest # "sent" => (~isRefreshing /\ failedQueue = <<>>))

====
